---------------------------- MODULE Spec2Model ----------------------------
(***************************************************************************)
(* Model of the configuration resolution and environment/secret            *)
(* reconciliation engine of the ADK deployment engine                      *)
(* (src/utils/env_manager.py).                                             *)
(*                                                                         *)
(* Python strings are TLA+ strings handled character by character with     *)
(* Len, SubSeq and \o.  A Python dict is the sequence of its items         *)
(* [k |-> key, v |-> value] in insertion order.  An optional value (None   *)
(* or a string) is the empty tuple or a one-element tuple.                 *)
(***************************************************************************)
EXTENDS Integers, Sequences, FiniteSets, TLC

VARIABLES
    fs,          \* the environment files on disk: path -> <<>> or <<parsed dict>>
    os_environ,  \* the process environment: name -> <<>> or <<value>>
    args,        \* the arguments the next call is made with
    pc,          \* "edit" while the inputs are written, then the calls made
    ret,         \* what the last call returned
    prev         \* what the call before the last one returned

vars == <<fs, os_environ, args, pc, ret, prev>>

\* How many things (file entries, process variables, config items, argument
\* changes) are written before the call.
MaxEdits == 3

---------------------------------------------------------------------------
(* Python's str methods *)

None == <<>>
Some(v) == <<v>>
\* The element of a one-element set: Only({F(x) : x \in {e}}) binds x to the
\* value of e, computed once, as an assignment to a local variable does.
Only(S) == CHOOSE x \in S : TRUE

StartsWith(s, p) == Len(s) >= Len(p) /\ SubSeq(s, 1, Len(p)) = p

EndsWith(s, p) == Len(s) >= Len(p) /\ SubSeq(s, Len(s) - Len(p) + 1, Len(s)) = p

\* First index >= i at which sub occurs in s, 0 when there is none.
RECURSIVE FindFrom(_, _, _)
FindFrom(s, sub, i) ==
    IF i + Len(sub) - 1 > Len(s) THEN 0
    ELSE IF SubSeq(s, i, i + Len(sub) - 1) = sub THEN i
    ELSE FindFrom(s, sub, i + 1)

Contains(s, sub) == FindFrom(s, sub, 1) # 0

\* s.split(sep, 1) for a sep that occurs in s
SplitFirst(s, sep) ==
    LET i == FindFrom(s, sep, 1)
    IN  <<SubSeq(s, 1, i - 1), SubSeq(s, i + Len(sep), Len(s))>>

\* s.split(sep)
RECURSIVE SplitAll(_, _)
SplitAll(s, sep) ==
    IF ~Contains(s, sep) THEN <<s>>
    ELSE LET p == SplitFirst(s, sep) IN <<p[1]>> \o SplitAll(p[2], sep)

\* sep.join(parts)
RECURSIVE Join(_, _)
Join(parts, sep) ==
    IF parts = <<>> THEN ""
    ELSE IF Len(parts) = 1 THEN parts[1]
    ELSE parts[1] \o sep \o Join(Tail(parts), sep)

\* s.strip(chars)
RECURSIVE LStrip(_, _)
LStrip(s, chars) ==
    IF Len(s) > 0 /\ SubSeq(s, 1, 1) \in chars
    THEN LStrip(SubSeq(s, 2, Len(s)), chars) ELSE s

RECURSIVE RStrip(_, _)
RStrip(s, chars) ==
    IF Len(s) > 0 /\ SubSeq(s, Len(s), Len(s)) \in chars
    THEN RStrip(SubSeq(s, 1, Len(s) - 1), chars) ELSE s

Strip(s, chars) == RStrip(LStrip(s, chars), chars)

LowerChar(c) ==
    CASE c = "A" -> "a" [] c = "B" -> "b" [] c = "C" -> "c" [] c = "D" -> "d"
      [] c = "E" -> "e" [] c = "F" -> "f" [] c = "G" -> "g" [] c = "H" -> "h"
      [] c = "I" -> "i" [] c = "J" -> "j" [] c = "K" -> "k" [] c = "L" -> "l"
      [] c = "M" -> "m" [] c = "N" -> "n" [] c = "O" -> "o" [] c = "P" -> "p"
      [] c = "Q" -> "q" [] c = "R" -> "r" [] c = "S" -> "s" [] c = "T" -> "t"
      [] c = "U" -> "u" [] c = "V" -> "v" [] c = "W" -> "w" [] c = "X" -> "x"
      [] c = "Y" -> "y" [] c = "Z" -> "z" [] OTHER -> c

\* s.lower()
RECURSIVE Lower(_)
Lower(s) ==
    IF Len(s) = 0 THEN ""
    ELSE LowerChar(SubSeq(s, 1, 1)) \o Lower(SubSeq(s, 2, Len(s)))

---------------------------------------------------------------------------
(* Python's dict, in insertion order *)

DictKeys(d) == {d[i].k : i \in 1..Len(d)}

\* d.get(key)
DictGet(d, key) ==
    IF key \in DictKeys(d)
    THEN Some(d[CHOOSE i \in 1..Len(d) : d[i].k = key].v)
    ELSE None

\* d[key] = value
DictSet(d, key, value) ==
    IF key \in DictKeys(d)
    THEN [i \in 1..Len(d) |-> IF d[i].k = key THEN [k |-> key, v |-> value] ELSE d[i]]
    ELSE Append(d, [k |-> key, v |-> value])

\* d.update(e)
RECURSIVE DictUpdate(_, _)
DictUpdate(d, e) ==
    IF e = <<>> THEN d
    ELSE DictUpdate(DictSet(d, e[1].k, e[1].v), Tail(e))

---------------------------------------------------------------------------
(* Paths *)

\* Path(__file__).parent of src/utils/env_manager.py
UtilsDir == "/w/engine/utils"

RECURSIVE LastSlash(_, _)
LastSlash(p, i) ==
    IF i = 0 THEN 0 ELSE IF SubSeq(p, i, i) = "/" THEN i ELSE LastSlash(p, i - 1)

\* Path.parent
Parent(p) ==
    LET i == LastSlash(p, Len(p)) IN IF i <= 1 THEN "/" ELSE SubSeq(p, 1, i - 1)

\* Path / str
PathJoin(p, rel) ==
    IF StartsWith(rel, "/") THEN rel
    ELSE IF p = "/" THEN "/" \o rel
    ELSE p \o "/" \o rel

AgentNames == {"a1"}
AgentsDirs == {"agents", "myagents"}
Roots == {Parent(UtilsDir), Parent(Parent(UtilsDir))}

Paths ==
    {PathJoin(r, ".env") : r \in Roots}
    \cup {PathJoin(r, d \o "/" \o a \o "/.env.secrets") :
            r \in Roots, d \in AgentsDirs, a \in AgentNames}

\* Path.exists
Exists(path) == path \in DOMAIN fs /\ fs[path] # None

\* dotenv_values(path): the file's variables, without touching os.environ
dotenv_values(path) == fs[path][1]

\* os.environ.get(key, default)
OsGet(key, default) ==
    IF key \in DOMAIN os_environ /\ os_environ[key] # None
    THEN os_environ[key] ELSE default

---------------------------------------------------------------------------
(* load_environment_files *)

\* Python truthiness of an optional string
Truthy(opt) == opt # None /\ opt[1] # ""

project_root ==
    LET deployment_engine_dir == OsGet("DEPLOYMENT_ENGINE_DIR", None)
    IN  IF Truthy(deployment_engine_dir) /\ deployment_engine_dir[1] # "."
        THEN Parent(Parent(UtilsDir))
        ELSE Parent(UtilsDir)

GlobalEnvFile == PathJoin(project_root, ".env")

AgentEnvFile(name) ==
    LET agents_dir == OsGet("AGENTS_DIR", Some("agents"))[1]
    IN  PathJoin(project_root, agents_dir \o "/" \o name \o "/.env.secrets")

env_files(agent_name) ==
    <<GlobalEnvFile>>
    \o (IF Truthy(agent_name) THEN <<AgentEnvFile(agent_name[1])>> ELSE <<>>)

\* for env_file in env_files: if env_file.exists(): env_vars.update(...)
RECURSIVE LoadFiles(_, _)
LoadFiles(files, env_vars) ==
    IF files = <<>> THEN env_vars
    ELSE LoadFiles(Tail(files),
                   IF Exists(files[1])
                   THEN DictUpdate(env_vars, dotenv_values(files[1]))
                   ELSE env_vars)

\* A slip: an entry already loaded is kept, so the global file wins.
RECURSIVE LoadFilesKeepFirst(_, _)
LoadFilesKeepFirst(files, env_vars) ==
    IF files = <<>> THEN env_vars
    ELSE LoadFilesKeepFirst(Tail(files),
             IF Exists(files[1])
             THEN DictUpdate(dotenv_values(files[1]), env_vars)
             ELSE env_vars)

load_environment_files_global_wins(agent_name) ==
    LoadFilesKeepFirst(env_files(agent_name), <<>>)

load_environment_files(agent_name) == LoadFiles(env_files(agent_name), <<>>)

---------------------------------------------------------------------------
(* The inputs: environment files, process environment, arguments *)

NoArgs ==
    [agent_name |-> None, config |-> <<>>, project_id |-> "", region |-> "",
     additional_flags |-> <<>>, substituted_vars |-> {},
     secret_referenced_vars |-> {}]

NoFiles == [p \in Paths |-> None]

OsNames ==
    {"DEPLOYMENT_ENGINE_DIR", "AGENTS_DIR", "GOOGLE_GENAI_USE_VERTEXAI",
     "GOOGLE_API_KEY", "GOOGLE_CLOUD_PROJECT", "GOOGLE_CLOUD_LOCATION",
     "GOOGLE_CLOUD_LOCATION_DEPLOY"}

NoEnviron == [n \in OsNames |-> None]

FileEntries ==
    Cardinality({x \in Paths \X (1..(MaxEdits + 1)) :
                    fs[x[1]] # None /\ x[2] <= Len(fs[x[1]][1])})

RECURSIVE SumLen(_)
SumLen(seqs) == IF seqs = <<>> THEN 0 ELSE Len(seqs[1]) + SumLen(Tail(seqs))

\* The number of things written so far.
Size ==
    FileEntries
    + Cardinality({n \in OsNames : os_environ[n] # None})
    + SumLen(args.config)
    + (IF Len(args.config) > 1 THEN Len(args.config) - 1 ELSE 0)
    + Len(args.additional_flags)
    + Cardinality(args.substituted_vars)
    + Cardinality(args.secret_referenced_vars)

\* A line KEY=VALUE is written to an environment file.
WriteEnvFile(path, key, value) ==
    /\ pc = "edit"
    /\ Size < MaxEdits
    /\ DictGet(IF fs[path] = None THEN <<>> ELSE fs[path][1], key) = None
    /\ fs' = [fs EXCEPT ![path] =
                Some(DictSet(IF fs[path] = None THEN <<>> ELSE fs[path][1],
                             key, value))]
    /\ UNCHANGED <<os_environ, args, pc, ret, prev>>

\* A variable is exported to the process before it starts.
SetEnviron(name, value) ==
    /\ pc = "edit"
    /\ Size < MaxEdits
    /\ os_environ[name] = None
    /\ os_environ' = [os_environ EXCEPT ![name] = Some(value)]
    /\ UNCHANGED <<fs, args, pc, ret, prev>>

---------------------------------------------------------------------------
(* Specification SpecLoad: calls of load_environment_files *)

LoadDefs ==
    {<<"REGION", "us-east1">>, <<"REGION", "us-west2">>, <<"DB", "x">>}

LoadEnviron ==
    {<<"DEPLOYMENT_ENGINE_DIR", ".">>, <<"DEPLOYMENT_ENGINE_DIR", "engine">>,
     <<"AGENTS_DIR", "myagents">>}

LoadAgentNames == {None, Some(""), Some("a1")}

CallLoad(agent_name) ==
    /\ pc = "edit"
    /\ args' = [args EXCEPT !.agent_name = agent_name]
    /\ ret' = load_environment_files(agent_name)
    /\ pc' = "loaded"
    /\ UNCHANGED <<fs, os_environ, prev>>

InitLoad ==
    /\ fs = NoFiles
    /\ os_environ = NoEnviron
    /\ args = NoArgs
    /\ pc = "edit"
    /\ ret = <<>>
    /\ prev = <<>>

NextLoad ==
    \/ \E p \in Paths, d \in LoadDefs : WriteEnvFile(p, d[1], d[2])
    \/ \E e \in LoadEnviron : SetEnviron(e[1], e[2])
    \/ \E a \in LoadAgentNames : CallLoad(a)

SpecLoad == InitLoad /\ [][NextLoad]_vars

\* The file a call reads for each layer, as an optional dict.
FileAt(path) == IF Exists(path) THEN fs[path][1] ELSE <<>>

\* C10: the map load_environment_files returns has, for every key, the value
\* of the agent's .env.secrets when an agent name is given and that file
\* defines the key, else the value of the global .env when it defines the
\* key, else nothing; a missing file contributes nothing and is no error.
C10_LayeredPrecedence ==
    pc = "loaded" =>
        LET global == FileAt(GlobalEnvFile)
            agent  == IF Truthy(args.agent_name)
                      THEN FileAt(AgentEnvFile(args.agent_name[1])) ELSE <<>>
        IN  /\ DictKeys(ret) = DictKeys(global) \cup DictKeys(agent)
            /\ \A key \in DictKeys(ret) :
                  DictGet(ret, key) =
                      IF key \in DictKeys(agent) THEN DictGet(agent, key)
                      ELSE DictGet(global, key)
            /\ \A i, j \in 1..Len(ret) : ret[i].k = ret[j].k => i = j

\* A call with an agent name where both files define REGION differently.
C10_Witness ==
    /\ pc = "loaded"
    /\ Truthy(args.agent_name)
    /\ Exists(GlobalEnvFile) /\ Exists(AgentEnvFile(args.agent_name[1]))
    /\ DictGet(fs[GlobalEnvFile][1], "REGION") = Some("us-east1")
    /\ DictGet(fs[AgentEnvFile(args.agent_name[1])][1], "REGION") = Some("us-west2")
    /\ DictGet(ret, "REGION") = Some("us-west2")

---------------------------------------------------------------------------
(* substitute_env_vars *)

\* The config tree of yaml.safe_load: strings, other scalars, lists, dicts.
Str(s) == [t |-> "str", s |-> s]
Other(n) == [t |-> "other", n |-> n]
List(xs) == [t |-> "list", xs |-> xs]
Dict(xs) == [t |-> "dict", xs |-> xs]

\* A slip: a placeholder that resolves to nothing is replaced by "".
replace_var_blank(var_expr, group0, env_vars) ==
    LET has_default == Contains(var_expr, ":-")
        var_name == IF has_default THEN SplitFirst(var_expr, ":-")[1] ELSE var_expr
        default_value == IF has_default THEN Some(SplitFirst(var_expr, ":-")[2])
                         ELSE None
        value == DictGet(env_vars, var_name)
    IN  IF value = None
        THEN IF default_value # None
             THEN [text |-> default_value[1], vars |-> {var_name}]
             ELSE [text |-> "", vars |-> {}]
        ELSE [text |-> value[1], vars |-> {var_name}]

\* A slip: only a variable found in the environment is tracked.
replace_var_untracked_default(var_expr, group0, env_vars) ==
    LET has_default == Contains(var_expr, ":-")
        var_name == IF has_default THEN SplitFirst(var_expr, ":-")[1] ELSE var_expr
        default_value == IF has_default THEN Some(SplitFirst(var_expr, ":-")[2])
                         ELSE None
        value == DictGet(env_vars, var_name)
    IN  IF value = None
        THEN IF default_value # None
             THEN [text |-> default_value[1], vars |-> {}]
             ELSE [text |-> group0, vars |-> {}]
        ELSE [text |-> value[1], vars |-> {var_name}]

\* replace_var(match): var_expr is match.group(1), group0 is match.group(0).
\* Returns the replacement and the names added to substituted_vars.
replace_var(var_expr, group0, env_vars) ==
    LET has_default == Contains(var_expr, ":-")
        var_name == IF has_default THEN SplitFirst(var_expr, ":-")[1] ELSE var_expr
        default_value == IF has_default THEN Some(SplitFirst(var_expr, ":-")[2])
                         ELSE None
        value == DictGet(env_vars, var_name)
    IN  IF value = None
        THEN IF default_value # None
             THEN [text |-> default_value[1], vars |-> {var_name}]
             ELSE [text |-> group0, vars |-> {}]
        ELSE [text |-> value[1], vars |-> {var_name}]

\* The end of the match of \$\{([^}]+)\} that starts at p, 0 when there is none.
MatchEnd(s, p) ==
    IF p + 1 <= Len(s) /\ SubSeq(s, p, p + 1) = "${"
    THEN LET q == FindFrom(s, "}", p + 2) IN IF q > p + 2 THEN q ELSE 0
    ELSE 0

\* The leftmost, non-overlapping matches from position p on, each replaced.
\* count is the number of replacements still allowed (-1: no limit).
RECURSIVE SubFrom(_, _, _, _)
SubFrom(s, p, env_vars, count) ==
    IF p > Len(s) THEN [text |-> "", vars |-> {}]
    ELSE LET q == IF count = 0 THEN 0 ELSE MatchEnd(s, p)
         IN  IF q = 0
             THEN LET rest == SubFrom(s, p + 1, env_vars, count)
                  IN  [text |-> SubSeq(s, p, p) \o rest.text, vars |-> rest.vars]
             ELSE LET r == replace_var(SubSeq(s, p + 2, q - 1), SubSeq(s, p, q),
                                       env_vars)
                      rest == SubFrom(s, q + 1, env_vars,
                                      IF count > 0 THEN count - 1 ELSE count)
                  IN  [text |-> r.text \o rest.text, vars |-> r.vars \cup rest.vars]

\* A slip: re.sub(..., count=1) replaces the first placeholder only.
re_sub_first_only(s, env_vars) == SubFrom(s, 1, env_vars, 1)

\* A slip: the result of the pass is substituted once more.
re_sub_twice(s, env_vars) ==
    LET once == SubFrom(s, 1, env_vars, -1)
        again == SubFrom(once.text, 1, env_vars, -1)
    IN  [text |-> again.text, vars |-> once.vars \cup again.vars]

\* re.sub(r'\$\{([^}]+)\}', replace_var, obj)
re_sub(s, env_vars) == SubFrom(s, 1, env_vars, -1)

RECURSIVE recursive_substitute(_, _)
recursive_substitute(obj, env_vars) ==
    IF obj.t = "dict"
    THEN LET rs == [i \in 1..Len(obj.xs) |->
                        recursive_substitute(obj.xs[i].v, env_vars)]
         IN  [obj |-> Dict([i \in 1..Len(obj.xs) |->
                                [k |-> obj.xs[i].k, v |-> rs[i].obj]]),
              vars |-> UNION {rs[i].vars : i \in 1..Len(obj.xs)}]
    ELSE IF obj.t = "list"
    THEN LET rs == [i \in 1..Len(obj.xs) |->
                        recursive_substitute(obj.xs[i], env_vars)]
         IN  [obj |-> List([i \in 1..Len(obj.xs) |-> rs[i].obj]),
              vars |-> UNION {rs[i].vars : i \in 1..Len(obj.xs)}]
    ELSE IF obj.t = "str"
    THEN LET r == re_sub(obj.s, env_vars)
         IN  [obj |-> Str(r.text), vars |-> r.vars]
    ELSE [obj |-> obj, vars |-> {}]

\* Returns (substituted_config, substituted_vars).
substitute_env_vars(config, agent_name) ==
    LET env_vars == load_environment_files(agent_name)
        r == recursive_substitute(config, env_vars)
    IN  [config |-> r.obj, substituted_vars |-> r.vars]

---------------------------------------------------------------------------
(* Specification SpecSubst: config.yaml is written, then substituted twice *)

\* What is typed into a string scalar of config.yaml: literal text, or a
\* placeholder ${name} or ${name:-default}.
Lit(text) == [kind |-> "lit", text |-> text, name |-> "", default |-> None]
Tok(name) ==
    [kind |-> "tok", text |-> "${" \o name \o "}", name |-> name, default |-> None]
TokD(name, default) ==
    [kind |-> "tok", text |-> "${" \o name \o ":-" \o default \o "}",
     name |-> name, default |-> Some(default)]

Items ==
    {Lit("x"), Lit("$"), Lit("}"),
     Tok("A"), Tok("B"), Tok("M"),
     TokD("A", "d"), TokD("M", "d"), TokD("M", ""), TokD("M", "${B")}

RECURSIVE Text(_)
Text(leaf) == IF leaf = <<>> THEN "" ELSE leaf[1].text \o Text(Tail(leaf))

\* The tree yaml.safe_load returns for a config.yaml whose string scalars
\* are texts[1] (the service name) and texts[2..] (the additional flags).
ConfigOf(texts) ==
    Dict(<<[k |-> "cloud_run",
            v |-> Dict((IF texts = <<>> THEN <<>>
                        ELSE <<[k |-> "service_name", v |-> Str(texts[1])]>>)
                       \o <<[k |-> "port", v |-> Other(8080)],
                            [k |-> "additional_flags",
                             v |-> List([i \in 1..(Len(texts) - 1) |->
                                            Str(texts[i + 1])])]>>)]>>)

Texts(leaves) == [i \in 1..Len(leaves) |-> Text(leaves[i])]

\* An item is typed into the last string scalar of config.yaml.
TypeItem(it) ==
    /\ pc = "edit"
    /\ Size < MaxEdits
    /\ args' = [args EXCEPT !.config[Len(args.config)] = Append(@, it)]
    /\ UNCHANGED <<fs, os_environ, pc, ret, prev>>

\* A further string scalar (an additional flag) is started in config.yaml.
NewScalar ==
    /\ pc = "edit"
    /\ Size < MaxEdits
    /\ args' = [args EXCEPT !.config = Append(@, <<>>)]
    /\ UNCHANGED <<fs, os_environ, pc, ret, prev>>

RootEnvFile == "/w/engine/.env"
A1SecretsFile == "/w/engine/agents/a1/.env.secrets"

SubstDefs ==
    {<<RootEnvFile, "A", "va">>, <<RootEnvFile, "A", "">>,
     <<RootEnvFile, "A", "${B}">>, <<A1SecretsFile, "B", "vb">>}

\* load_agent_config: substitute_env_vars(config, agent_name)
CallSubstitute ==
    /\ pc = "edit"
    /\ ret' = substitute_env_vars(ConfigOf(Texts(args.config)), args.agent_name)
    /\ pc' = "once"
    /\ UNCHANGED <<fs, os_environ, args, prev>>

\* The substituted config is substituted again with the same environment.
CallSubstituteAgain ==
    /\ pc = "once"
    /\ prev' = ret
    /\ ret' = substitute_env_vars(ret.config, args.agent_name)
    /\ pc' = "twice"
    /\ UNCHANGED <<fs, os_environ, args>>

InitSubst ==
    /\ fs = NoFiles
    /\ os_environ = NoEnviron
    /\ args = [NoArgs EXCEPT !.agent_name = Some("a1"), !.config = << <<>> >>]
    /\ pc = "edit"
    /\ ret = <<>>
    /\ prev = <<>>

NextSubst ==
    \/ \E it \in Items : TypeItem(it)
    \/ NewScalar
    \/ \E d \in SubstDefs : WriteEnvFile(d[1], d[2], d[3])
    \/ CallSubstitute
    \/ CallSubstituteAgain

SpecSubst == InitSubst /\ [][NextSubst]_vars

\* The aggregated environment map of the run.
EnvMap == load_environment_files(args.agent_name)

AllItems == UNION {{leaf[i] : i \in 1..Len(leaf)} : leaf \in {args.config[j] : j \in 1..Len(args.config)}}

Tokens == {it \in AllItems : it.kind = "tok"}

\* "$" occurs in the config only as the first character of a placeholder
\* (a default may hold one).
WellFormed == \A it \in AllItems : it.kind = "lit" => ~Contains(it.text, "$")

Resolvable(it) == DictGet(EnvMap, it.name) # None \/ it.default # None

\* What the rule of the specification puts in place of an item.
Replacement(it) ==
    IF it.kind = "lit" THEN it.text
    ELSE IF DictGet(EnvMap, it.name) # None THEN DictGet(EnvMap, it.name)[1]
    ELSE IF it.default # None THEN it.default[1]
    ELSE it.text

RECURSIVE Replaced(_)
Replaced(leaf) ==
    IF leaf = <<>> THEN "" ELSE Replacement(leaf[1]) \o Replaced(Tail(leaf))

ReplacedConfig == ConfigOf([i \in 1..Len(args.config) |-> Replaced(args.config[i])])

\* C6: when every placeholder of the config has a value in the environment
\* map or a default, each is replaced by the map's value, else by its default
\* (an empty one included), all other text and nodes are unchanged, and the
\* consumed set is exactly the set of the placeholders' names.
C6_TokenRule ==
    (pc = "once" /\ WellFormed /\ \A it \in Tokens : Resolvable(it)) =>
        /\ ret.config = ReplacedConfig
        /\ ret.substituted_vars = {it.name : it \in Tokens}

\* Both rules act: one placeholder takes the map's value, one its default.
C6_Witness ==
    /\ pc = "once" /\ WellFormed /\ \A it \in Tokens : Resolvable(it)
    /\ \E it \in Tokens : DictGet(EnvMap, it.name) # None
    /\ \E it \in Tokens : DictGet(EnvMap, it.name) = None /\ it.default # None
    /\ ret.config # ConfigOf(Texts(args.config))

Unresolved == {it \in Tokens : ~Resolvable(it)}

\* The j-th string scalar of a config tree shaped as ConfigOf builds it.
ScalarOf(config, j) ==
    IF j = 1 THEN config.xs[1].v.xs[1].v.s
    ELSE config.xs[1].v.xs[3].v.xs[j - 1].s

\* C7: a placeholder without default whose name has no value in the map stays
\* verbatim in the output, its name enters the consumed set only through
\* another placeholder of the same name that has a default, the other
\* placeholders of the config are still substituted, and the call returns.
C7_UnresolvedPreserved ==
    (pc = "once" /\ WellFormed /\ Unresolved # {}) =>
        /\ \A j \in 1..Len(args.config) :
              LET leaf == args.config[j]
                  out  == ScalarOf(ret.config, j)
              IN  \A i \in 1..Len(leaf) :
                      leaf[i] \in Unresolved =>
                          out = Replaced(SubSeq(leaf, 1, i - 1)) \o leaf[i].text
                                \o Replaced(SubSeq(leaf, i + 1, Len(leaf)))
        /\ \A it \in Unresolved :
              it.name \in ret.substituted_vars =>
                  \E other \in Tokens : other.name = it.name /\ Resolvable(other)
        /\ \A it \in Tokens : Resolvable(it) => it.name \in ret.substituted_vars

\* An unresolvable placeholder followed, in the same scalar, by one that is
\* substituted.
C7_Witness ==
    /\ pc = "once" /\ WellFormed
    /\ \E j \in 1..Len(args.config) :
          \E i \in 1..(Len(args.config[j]) - 1) :
              /\ args.config[j][i] \in Unresolved
              /\ args.config[j][i + 1] \in Tokens \ Unresolved
    /\ ret.substituted_vars # {}

\* No "$" outside the placeholders' own "${": none in literal text, in a
\* default or in a value of the environment map.
NoStrayDollar ==
    /\ WellFormed
    /\ \A it \in Tokens : it.default = None \/ ~Contains(it.default[1], "$")
    /\ \A i \in 1..Len(EnvMap) : ~Contains(EnvMap[i].v, "$")

NoNestedDefaults ==
    \A it \in Tokens : it.default = None \/ ~Contains(it.default[1], "${")

\* C8 as stated: with no placeholder nested in a default, a second pass with
\* the same environment map returns the tree of the first pass.
C8_IdempotentAsStated ==
    (pc = "twice" /\ WellFormed /\ NoNestedDefaults) => ret.config = prev.config

\* C8, amended: when moreover "$" occurs nowhere but at the start of a
\* placeholder (not in literal text, in a default or in a value of the map),
\* a second pass with the same map returns the tree of the first pass.
C8_IdempotentNoStrayDollar ==
    (pc = "twice" /\ NoStrayDollar) => ret.config = prev.config

\* The first pass substituted something and left an unresolvable placeholder
\* for the second pass to meet.
C8_Witness ==
    /\ pc = "twice" /\ NoStrayDollar
    /\ prev.config # ConfigOf(Texts(args.config))
    /\ Unresolved # {}
    /\ Tokens \ Unresolved # {}
    /\ ret.config = prev.config

\* The places (scalar j, item i) of a placeholder whose default starts a
\* nested placeholder closed by the next character: ${X:-${Y}}.
NestedAt ==
    {x \in (1..Len(args.config)) \X (1..MaxEdits + 1) :
        /\ x[2] < Len(args.config[x[1]])
        /\ args.config[x[1]][x[2]].default # None
        /\ StartsWith(args.config[x[1]][x[2]].default[1], "${")
        /\ args.config[x[1]][x[2] + 1].text = "}"}

\* C9: the placeholder nested in a default is not substituted: its name enters
\* the consumed set only through a placeholder of its own elsewhere in the
\* config, and when the outer name has no value the default is emitted as
\* written, the nested placeholder unresolved.
C9_SinglePassDefaults ==
    (pc = "once" /\ WellFormed) =>
        \A x \in NestedAt :
            LET leaf  == args.config[x[1]]
                outer == leaf[x[2]]
                inner == SubSeq(outer.default[1], 3, Len(outer.default[1]))
            IN  /\ inner \in ret.substituted_vars =>
                      \E other \in Tokens : other.name = inner /\ Resolvable(other)
                /\ DictGet(EnvMap, outer.name) = None =>
                      ScalarOf(ret.config, x[1]) =
                          Replaced(SubSeq(leaf, 1, x[2] - 1))
                          \o outer.default[1] \o "}"
                          \o Replaced(SubSeq(leaf, x[2] + 2, Len(leaf)))

\* ${M:-${B}} with M undefined and B defined in the environment map.
C9_Witness ==
    /\ pc = "once" /\ WellFormed
    /\ \E x \in NestedAt :
          LET outer == args.config[x[1]][x[2]]
          IN  /\ DictGet(EnvMap, outer.name) = None
              /\ DictGet(EnvMap, SubSeq(outer.default[1], 3, Len(outer.default[1])))
                    # None

---------------------------------------------------------------------------
(* strip_quotes, get_env_var *)

\* strip_quotes of a string
strip_quotes(value) ==
    IF value # ""
    THEN IF StartsWith(value, "\"") /\ EndsWith(value, "\"")
         THEN SubSeq(value, 2, Len(value) - 1)
         ELSE IF StartsWith(value, "'") /\ EndsWith(value, "'")
         THEN SubSeq(value, 2, Len(value) - 1)
         ELSE value
    ELSE value

\* get_env_var(key, default): an optional string
get_env_var(key, default) ==
    LET value == OsGet(key, default)
    IN  IF value = None THEN None ELSE Some(strip_quotes(value[1]))

\* Python's "a or b" on optional strings
Or(a, b) == IF Truthy(a) THEN a ELSE b

---------------------------------------------------------------------------
(* process_secret_manager_config *)

\* Every secret name taken as literal
IsPlaceholder_never(s) == FALSE

IsPlaceholder(s) == StartsWith(s, "${") /\ EndsWith(s, "}")

\* secret_secrets.append((secret_name, env_var)) wrongly written as an
\* insert at the front
add_binding_front(acc, secret_name, env_var) ==
    [acc EXCEPT !.secret_secrets = <<<<secret_name, env_var>>>> \o @,
                !.secret_env_vars = @ \cup {env_var}]

\* A literal secret name: the binding is appended and the env-var tracked.
add_binding(acc, secret_name, env_var) ==
    [acc EXCEPT !.secret_secrets = Append(@, <<secret_name, env_var>>),
                !.secret_env_vars = @ \cup {env_var}]

\* The body of the loop over secret_pairs; acc holds the function's lists.
RECURSIVE process_secret_pairs(_, _)
process_secret_pairs(secret_pairs, acc) ==
    IF secret_pairs = <<>> THEN acc
    ELSE LET pair == secret_pairs[1]
             next ==
               IF Contains(pair, "=") /\ Contains(pair, ":")
               THEN LET env_var == SplitFirst(pair, "=")[1]
                        secret_name_version == SplitFirst(pair, "=")[2]
                    IN  IF Contains(secret_name_version, ":")
                        THEN LET secret_name == SplitFirst(secret_name_version, ":")[1]
                             IN  IF IsPlaceholder(secret_name)
                                 THEN [acc EXCEPT !.referenced_vars =
                                         @ \cup {SubSeq(secret_name, 3,
                                                        Len(secret_name) - 1)}]
                                 ELSE add_binding(acc, secret_name, env_var)
                        ELSE acc
               ELSE acc
         IN  process_secret_pairs(Tail(secret_pairs), next)

process_secret_string(secrets_str, acc) ==
    process_secret_pairs(SplitAll(secrets_str, ","), acc)

UpdateSecretsPrefix == "--update-secrets="
ServiceAccountPrefix == "--service-account="

\* The service-account variable itself excluded, in place of the literal
\* name
mark_service_account_by_name(acc, service_account_value) ==
    IF IsPlaceholder(service_account_value)
    THEN LET var_name == SubSeq(service_account_value, 3,
                                Len(service_account_value) - 1)
         IN  [acc EXCEPT !.referenced_vars = @ \cup {var_name},
                         !.secret_env_vars = @ \cup {var_name}]
    ELSE acc

\* A --service-account value that is a substitution: its variable is
\* referenced and the name SERVICE_ACCOUNT is excluded.
mark_service_account(acc, service_account_value) ==
    IF IsPlaceholder(service_account_value)
    THEN [acc EXCEPT
            !.referenced_vars =
               @ \cup {SubSeq(service_account_value, 3,
                              Len(service_account_value) - 1)},
            !.secret_env_vars = @ \cup {"SERVICE_ACCOUNT"}]
    ELSE acc

RECURSIVE process_flags(_, _)
process_flags(flags, acc) ==
    IF flags = <<>> THEN acc
    ELSE LET flag == flags[1]
             next ==
               IF StartsWith(flag, UpdateSecretsPrefix)
               THEN process_secret_string(
                        Strip(SubSeq(flag, Len(UpdateSecretsPrefix) + 1, Len(flag)),
                              {"'", "\""}),
                        acc)
               ELSE IF StartsWith(flag, ServiceAccountPrefix)
               THEN LET service_account_value ==
                            SubSeq(flag, Len(ServiceAccountPrefix) + 1, Len(flag))
                        marked == mark_service_account(acc, service_account_value)
                    IN  [marked EXCEPT !.additional_processed_flags = Append(@, flag)]
               ELSE [acc EXCEPT !.additional_processed_flags = Append(@, flag)]
         IN  process_flags(Tail(flags), next)

\* Returns (secret_secrets, referenced_vars, secret_env_vars,
\* additional_processed_flags).
process_secret_manager_config(additional_flags) ==
    process_flags(additional_flags,
                  [secret_secrets |-> <<>>, referenced_vars |-> {},
                   secret_env_vars |-> {}, additional_processed_flags |-> <<>>])

---------------------------------------------------------------------------
(* setup_environment_variables *)

VERTEXAI == "GOOGLE_GENAI_USE_VERTEXAI"
API_KEY == "GOOGLE_API_KEY"
PROJECT == "GOOGLE_CLOUD_PROJECT"
LOCATION == "GOOGLE_CLOUD_LOCATION"

global_env_vars == <<VERTEXAI, API_KEY, PROJECT, LOCATION>>

InList(x, list) == \E i \in 1..Len(list) : list[i] = x

\* A slip: the flag is compared without .lower().
use_vertexai_case_sensitive(env_vars) ==
    Or(DictGet(env_vars, VERTEXAI), get_env_var(VERTEXAI, Some("false")))[1] = "true"

use_vertexai(env_vars) ==
    Lower(Or(DictGet(env_vars, VERTEXAI), get_env_var(VERTEXAI, Some("false")))[1])
        = "true"

excluded_by_auth_mode(env_vars) == IF use_vertexai(env_vars) THEN {API_KEY} ELSE {}

\* for secret_name, env_var_name in secret_manager_secrets: ...
filtered_secrets(secret_manager_secrets, excluded) ==
    SelectSeq(secret_manager_secrets, LAMBDA b : b[2] \notin excluded)

\* A slip: the variables substituted into the config are left out of the union.
excluded_vars_without_substituted(smc, substituted_vars, secret_referenced_vars) ==
    smc.secret_env_vars \cup secret_referenced_vars \cup smc.referenced_vars

excluded_vars(smc, substituted_vars, secret_referenced_vars) ==
    smc.secret_env_vars \cup substituted_vars \cup secret_referenced_vars
        \cup smc.referenced_vars

\* A slip: the process environment is asked before the loaded files.
global_value_process_first(env_var, env_vars) ==
    Or(get_env_var(env_var, None), DictGet(env_vars, env_var))

\* env_vars.get(env_var) or get_env_var(env_var)
global_value(env_var, env_vars) ==
    Or(DictGet(env_vars, env_var), get_env_var(env_var, None))

\* for env_var in global_env_vars: ...
RECURSIVE load_global_vars(_, _, _, _)
load_global_vars(names, env_vars, excluded, by_auth) ==
    IF names = <<>> THEN <<>>
    ELSE LET env_var == names[1]
             value == global_value(env_var, env_vars)
         IN  (IF /\ env_var \notin excluded
                 /\ env_var \notin by_auth
                 /\ env_var \notin {PROJECT, LOCATION}
                 /\ Truthy(value)
              THEN <<env_var \o "=" \o value[1]>>
              ELSE <<>>)
             \o load_global_vars(Tail(names), env_vars, excluded, by_auth)

\* A slip: the value of an agent variable keeps its quotes.
RECURSIVE load_agent_vars_unstripped(_, _, _)
load_agent_vars_unstripped(items, excluded, by_auth) ==
    IF items = <<>> THEN <<>>
    ELSE (IF /\ items[1].k \notin excluded
             /\ ~InList(items[1].k, global_env_vars)
             /\ items[1].k \notin by_auth
          THEN <<items[1].k \o "=" \o items[1].v>>
          ELSE <<>>)
         \o load_agent_vars_unstripped(Tail(items), excluded, by_auth)

\* for key, value in env_vars.items(): ...
RECURSIVE load_agent_vars(_, _, _)
load_agent_vars(items, excluded, by_auth) ==
    IF items = <<>> THEN <<>>
    ELSE (IF /\ items[1].k \notin excluded
             /\ ~InList(items[1].k, global_env_vars)
             /\ items[1].k \notin by_auth
          THEN <<items[1].k \o "=" \o strip_quotes(items[1].v)>>
          ELSE <<>>)
         \o load_agent_vars(Tail(items), excluded, by_auth)

\* Returns (env_string, filtered_secrets, additional_processed_flags);
\* base_env_vars is the list env_string is joined from.
setup_environment_variables(project_id, region, agent_name, additional_flags, substituted_vars, secret_referenced_vars) ==
    LET env_vars == load_environment_files(agent_name)
        smc == process_secret_manager_config(additional_flags)
        by_auth == excluded_by_auth_mode(env_vars)
        excluded == excluded_vars(smc, substituted_vars, secret_referenced_vars)
        base_env_vars ==
            <<PROJECT \o "=" \o strip_quotes(project_id),
              LOCATION \o "=" \o strip_quotes(region)>>
            \o load_global_vars(global_env_vars, env_vars, excluded, by_auth)
            \o load_agent_vars(env_vars, excluded, by_auth)
    IN  [env_string |-> Join(base_env_vars, ","),
         secret_manager_secrets |-> filtered_secrets(smc.secret_secrets, by_auth),
         additional_processed_flags |-> smc.additional_processed_flags,
         base_env_vars |-> base_env_vars]

---------------------------------------------------------------------------
(* Specification SpecEnv: the inputs of a deployment are written, then       *)
(* setup_environment_variables is called                                     *)

EnvDefs ==
    {<<RootEnvFile, VERTEXAI, "True">>, <<RootEnvFile, VERTEXAI, "false">>,
     <<RootEnvFile, API_KEY, "gk">>, <<RootEnvFile, "DB_PASS", "'pw'">>,
     <<RootEnvFile, PROJECT, "fileproj">>, <<RootEnvFile, "SA_EMAIL", "sa@x">>,
     <<A1SecretsFile, API_KEY, "ak">>, <<A1SecretsFile, "DB_PASS", "apw">>,
     <<A1SecretsFile, VERTEXAI, "">>}

EnvEnviron ==
    {<<VERTEXAI, "TRUE">>, <<VERTEXAI, "'true'">>, <<API_KEY, "\"ok\"">>}

EnvFlags ==
    {"--update-secrets=GOOGLE_API_KEY=gsec:latest",
     "--update-secrets='DB_PASS=dbsec:2,TOKEN=${TOKEN_SECRET}:latest'",
     "--update-secrets=GOOGLE_CLOUD_PROJECT=psec:latest",
     "--service-account=${SA_EMAIL}",
     "--memory=1Gi"}

EnvSubstituted == {PROJECT, "DB_PASS"}
EnvSecretReferenced == {"SA_EMAIL"}

\* (project_id, region, agent_name) of a call
SetupCalls ==
    {<<"\"p1\"", "'us-central1'", Some("a1")>>,
     <<"p1", "us-central1", None>>}

\* A flag is added to cloud_run.additional_flags.
AddFlag(flag) ==
    /\ pc = "edit"
    /\ Size < MaxEdits
    /\ args' = [args EXCEPT !.additional_flags = Append(@, flag)]
    /\ UNCHANGED <<fs, os_environ, pc, ret, prev>>

\* The caller's substituted_vars holds one more name.
AddSubstituted(name) ==
    /\ pc = "edit"
    /\ Size < MaxEdits
    /\ name \notin args.substituted_vars
    /\ args' = [args EXCEPT !.substituted_vars = @ \cup {name}]
    /\ UNCHANGED <<fs, os_environ, pc, ret, prev>>

\* The caller's secret_referenced_vars holds one more name.
AddSecretReferenced(name) ==
    /\ pc = "edit"
    /\ Size < MaxEdits
    /\ name \notin args.secret_referenced_vars
    /\ args' = [args EXCEPT !.secret_referenced_vars = @ \cup {name}]
    /\ UNCHANGED <<fs, os_environ, pc, ret, prev>>

CallSetup(project_id, region, agent_name) ==
    /\ pc = "edit"
    /\ args' = [args EXCEPT !.project_id = project_id, !.region = region,
                            !.agent_name = agent_name]
    /\ ret' = setup_environment_variables(project_id, region, agent_name,
                  args.additional_flags, args.substituted_vars,
                  args.secret_referenced_vars)
    /\ pc' = "setup"
    /\ UNCHANGED <<fs, os_environ, prev>>

InitEnv ==
    /\ fs = NoFiles
    /\ os_environ = NoEnviron
    /\ args = NoArgs
    /\ pc = "edit"
    /\ ret = <<>>
    /\ prev = <<>>

NextEnv ==
    \/ \E d \in EnvDefs : WriteEnvFile(d[1], d[2], d[3])
    \/ \E e \in EnvEnviron : SetEnviron(e[1], e[2])
    \/ \E f \in EnvFlags : AddFlag(f)
    \/ \E n \in EnvSubstituted : AddSubstituted(n)
    \/ \E n \in EnvSecretReferenced : AddSecretReferenced(n)
    \/ \E c \in SetupCalls : CallSetup(c[1], c[2], c[3])

SpecEnv == InitEnv /\ [][NextEnv]_vars

\* The key of a KEY=VALUE entry.
KeyOf(entry) == SplitFirst(entry, "=")[1]

\* The names the plain-env list assigns.
PlainNames == {KeyOf(ret.base_env_vars[i]) : i \in 1..Len(ret.base_env_vars)}

\* The names the KEY=VALUE entries of the env string assign.
StringNames ==
    LET entries == SplitAll(ret.env_string, ",")
    IN  {KeyOf(entries[i]) : i \in {j \in 1..Len(entries) : Contains(entries[j], "=")}}

\* The env-var names of the returned secret bindings.
SecretNames ==
    {ret.secret_manager_secrets[i][2] : i \in 1..Len(ret.secret_manager_secrets)}

\* The value a name resolves to: the map's when it has one, else the
\* process environment's (quote-stripped); "" when there is none.
ResolvedValue(name) ==
    LET m == DictGet(EnvMap, name)
    IN  IF m # None /\ m[1] # "" THEN m[1]
        ELSE IF os_environ[name] # None THEN strip_quotes(os_environ[name][1])
        ELSE ""

HostedRuntime == Lower(ResolvedValue(VERTEXAI)) = "true"

AuthExcluded == IF HostedRuntime THEN {API_KEY} ELSE {}

\* The exclusion sets given to or computed by the call.
ExclusionUnion ==
    LET smc == process_secret_manager_config(args.additional_flags)
    IN  smc.secret_env_vars \cup args.substituted_vars
        \cup args.secret_referenced_vars \cup smc.referenced_vars

\* C1: no environment-variable name is both the key of a KEY=VALUE entry of
\* the env string and the env-var name of a returned secret binding.
C1_NoDuplicateEmission ==
    pc = "setup" => StringNames \cap SecretNames = {}

\* C2: in hosted-runtime mode (GOOGLE_GENAI_USE_VERTEXAI resolves to "true"
\* in any letter case) GOOGLE_API_KEY is the key of no plain-env entry and
\* the env-var name of no returned secret binding.
C2_ApiKeyExcluded ==
    (pc = "setup" /\ HostedRuntime) =>
        API_KEY \notin PlainNames \cup StringNames \cup SecretNames

\* Hosted-runtime mode with GOOGLE_API_KEY both in the env files and the
\* target of a literal --update-secrets directive.
C2_Witness ==
    /\ pc = "setup" /\ HostedRuntime
    /\ DictGet(EnvMap, API_KEY) # None
    /\ API_KEY \in process_secret_manager_config(args.additional_flags).secret_env_vars

\* C3 as stated: no name of the exclusion union is the key of a plain-env
\* entry.
C3_ExcludedNeverPlainAsStated ==
    pc = "setup" => ExclusionUnion \cap PlainNames = {}

\* C3, amended: no name of the exclusion union other than
\* GOOGLE_CLOUD_PROJECT and GOOGLE_CLOUD_LOCATION (which are always emitted,
\* with the caller's project and region) is the key of a plain-env entry.
C3_ExcludedNeverPlain ==
    pc = "setup" => (ExclusionUnion \ {PROJECT, LOCATION}) \cap PlainNames = {}

\* A variable of the env files is excluded because it was substituted into
\* the config, and the list holds an entry next to the two mandatory ones.
C3_Witness ==
    /\ pc = "setup"
    /\ \E n \in args.substituted_vars \ {PROJECT, LOCATION} : n \in DictKeys(EnvMap)
    /\ Len(ret.base_env_vars) > 2

\* The entries the agent-specific part of the list must hold, in order.
AgentPart ==
    LET left_out == ExclusionUnion \cup AuthExcluded
                        \cup {VERTEXAI, API_KEY, PROJECT, LOCATION}
    IN  SelectSeq(EnvMap, LAMBDA item : item.k \notin left_out)

\* C4: the plain-env list is GOOGLE_CLOUD_PROJECT=<project>,
\* GOOGLE_CLOUD_LOCATION=<region> (quote-stripped, whatever the exclusion
\* sets), then the emitted ones of GOOGLE_GENAI_USE_VERTEXAI and
\* GOOGLE_API_KEY in that order, then KEY=<quote-stripped value> for every
\* key of the env map that is not excluded, not global and not
\* auth-excluded, in the map's order; no key occurs twice.
C4_PlainEnvList ==
    pc = "setup" =>
        LET list == ret.base_env_vars
            part == AgentPart
            g == Len(list) - 2 - Len(part)
        IN  /\ Len(list) >= 2
            /\ list[1] = PROJECT \o "=" \o strip_quotes(args.project_id)
            /\ list[2] = LOCATION \o "=" \o strip_quotes(args.region)
            /\ g \in 0..2
            /\ \A i \in 3..(2 + g) : KeyOf(list[i]) \in {VERTEXAI, API_KEY}
            /\ g = 2 => KeyOf(list[3]) = VERTEXAI /\ KeyOf(list[4]) = API_KEY
            /\ \A i \in 1..Len(part) :
                  list[2 + g + i] = part[i].k \o "=" \o strip_quotes(part[i].v)
            /\ \A i, j \in 1..Len(list) : KeyOf(list[i]) = KeyOf(list[j]) => i = j

\* Quoted project and region, the hosted-runtime flag emitted, the API key
\* of the env files auth-excluded, and a quoted agent value.
C4_Witness ==
    /\ pc = "setup"
    /\ DictGet(EnvMap, API_KEY) # None
    /\ args.project_id = "\"p1\""
    /\ Len(ret.base_env_vars) = 4
    /\ KeyOf(ret.base_env_vars[3]) = VERTEXAI
    /\ ret.base_env_vars[4] = "DB_PASS=pw"

\* C5: each of GOOGLE_GENAI_USE_VERTEXAI and GOOGLE_API_KEY that is neither
\* excluded nor auth-excluded is emitted, as NAME=value, exactly when a
\* non-empty value resolves for it, the env map's value before the process
\* environment's; outside hosted-runtime mode a GOOGLE_API_KEY of the env
\* files is therefore emitted.
C5_GlobalCredentials ==
    pc = "setup" =>
        LET excl == ExclusionUnion
            names == PlainNames
            file_key == DictGet(EnvMap, API_KEY)
        IN  /\ \A name \in {VERTEXAI, API_KEY} \ (excl \cup AuthExcluded) :
                  LET value == ResolvedValue(name)
                  IN  /\ name \in names <=> value # ""
                      /\ name \in names =>
                            InList(name \o "=" \o value, ret.base_env_vars)
            /\ (~HostedRuntime /\ API_KEY \notin excl /\ Truthy(file_key)) =>
                   InList(API_KEY \o "=" \o file_key[1], ret.base_env_vars)

\* Direct-API-key mode: GOOGLE_API_KEY is set in the env files and in the
\* process environment, and the files' value is emitted.
C5_Witness ==
    /\ pc = "setup" /\ ~HostedRuntime
    /\ Truthy(DictGet(EnvMap, API_KEY))
    /\ os_environ[API_KEY] # None
    /\ InList(API_KEY \o "=" \o DictGet(EnvMap, API_KEY)[1], ret.base_env_vars)

---------------------------------------------------------------------------
(* Specification SpecFrame: the four functions of env_manager.py are called  *)
(* one after the other on the same files and process environment            *)

MaxCalls == 2

\* os.environ after get_env_var(key, default) wrongly written with
\* os.environ.setdefault
environ_after_get_env_var_setdefault(environ, key, default) ==
    IF environ[key] = None /\ default # None
    THEN [environ EXCEPT ![key] = default]
    ELSE environ

\* os.environ after get_env_var(key, default): os.getenv only reads.
environ_after_get_env_var(environ, key, default) == environ

\* os.environ after load_environment_files wrongly written with load_dotenv,
\* which exports the variables of the files that are not yet set
environ_after_load_dotenv(environ, agent_name) ==
    LET env_vars == load_environment_files(agent_name)
    IN  [n \in DOMAIN environ |->
            IF environ[n] = None THEN DictGet(env_vars, n) ELSE environ[n]]

\* os.environ after load_environment_files(agent_name): os.environ.get only
\* reads, and dotenv_values parses a file without exporting it.
environ_after_load(environ, agent_name) == environ

\* os.environ after setup_environment_variables: that of its
\* load_environment_files, then of the get_env_var of use_vertexai, which the
\* "or" evaluates only when the map has no truthy value.
environ_after_setup(environ, agent_name) ==
    LET loaded == environ_after_load(environ, agent_name)
    IN  IF Truthy(DictGet(load_environment_files(agent_name), VERTEXAI))
        THEN loaded
        ELSE environ_after_get_env_var(loaded, VERTEXAI, Some("false"))

FrameDefs ==
    {<<RootEnvFile, "A", "va">>, <<RootEnvFile, API_KEY, "gk">>,
     <<A1SecretsFile, API_KEY, "ak">>, <<A1SecretsFile, VERTEXAI, "">>}

FrameEnviron == {<<VERTEXAI, "true">>, <<API_KEY, "ok">>}

FrameFlags == {"--update-secrets=DB_PASS=dbsec:2", "--service-account=${A}"}

FrameItems == {Tok("A")}

FrameAgents == {None, Some("a1")}

NoCall ==
    [calls |-> 0, fn |-> "none", call |-> <<>>, result |-> <<>>, repeat |-> FALSE]

\* The record of a call: how many calls were made, the function, its
\* arguments, what it returned, and whether the call before it was the same.
Called(fn, call, result) ==
    [calls |-> ret.calls + 1, fn |-> fn, call |-> call, result |-> result,
     repeat |-> (ret.fn = fn /\ ret.call = call)]

CanCall == pc \in {"edit", "calls"} /\ ret.calls < MaxCalls

\* load_environment_files(agent_name): the returned dict is a new object,
\* prev holds the dicts returned so far and the result is its place there.
FrameLoad(agent_name) ==
    /\ CanCall
    /\ prev' = Append(prev, load_environment_files(agent_name))
    /\ ret' = Called("load", <<agent_name>>, Len(prev) + 1)
    /\ os_environ' = environ_after_load(os_environ, agent_name)
    /\ pc' = "calls"
    /\ UNCHANGED <<fs, args>>

\* substitute_env_vars(config, agent_name)
FrameSubstitute(agent_name) ==
    /\ CanCall
    /\ ret' = Called("substitute", <<agent_name>>,
                     substitute_env_vars(ConfigOf(Texts(args.config)), agent_name))
    /\ os_environ' = environ_after_load(os_environ, agent_name)
    /\ pc' = "calls"
    /\ UNCHANGED <<fs, args, prev>>

\* process_secret_manager_config(additional_flags)
FrameClassify ==
    /\ CanCall
    /\ ret' = Called("classify", <<>>,
                     process_secret_manager_config(args.additional_flags))
    /\ pc' = "calls"
    /\ UNCHANGED <<fs, os_environ, args, prev>>

\* setup_environment_variables(project_id, region, agent_name, ...)
FrameSetup(agent_name) ==
    /\ CanCall
    /\ ret' = Called("setup", <<agent_name>>,
                     setup_environment_variables("p1", "us-central1", agent_name,
                         args.additional_flags, args.substituted_vars,
                         args.secret_referenced_vars))
    /\ os_environ' = environ_after_setup(os_environ, agent_name)
    /\ pc' = "calls"
    /\ UNCHANGED <<fs, args, prev>>

InitFrame ==
    /\ fs = NoFiles
    /\ os_environ = NoEnviron
    /\ args = [NoArgs EXCEPT !.config = << <<>> >>]
    /\ pc = "edit"
    /\ ret = NoCall
    /\ prev = <<>>

NextFrame ==
    \/ \E d \in FrameDefs : WriteEnvFile(d[1], d[2], d[3])
    \/ \E e \in FrameEnviron : SetEnviron(e[1], e[2])
    \/ \E f \in FrameFlags : AddFlag(f)
    \/ \E it \in FrameItems : TypeItem(it)
    \/ \E a \in FrameAgents : FrameLoad(a)
    \/ \E a \in FrameAgents : FrameSubstitute(a)
    \/ FrameClassify
    \/ \E a \in FrameAgents : FrameSetup(a)

SpecFrame == InitFrame /\ [][NextFrame]_vars

\* C11: a call of load_environment_files, substitute_env_vars,
\* process_secret_manager_config or setup_environment_variables leaves the
\* process environment as it was; the dict load_environment_files returns is
\* a new object, and the dicts returned earlier are neither it nor changed.
C11_NoEnvironWrite ==
    [][ret'.calls # ret.calls =>
          /\ os_environ' = os_environ
          /\ Len(prev') >= Len(prev)
          /\ \A i \in 1..Len(prev) : prev'[i] = prev[i]
          /\ ret'.fn = "load" =>
                /\ ret'.result \notin 1..Len(prev)
                /\ prev'[ret'.result] = load_environment_files(ret'.call[1])]_vars

\* Two dicts were returned, the second differs from the first, and the
\* process environment and the files hold variables.
C11_Witness ==
    /\ pc = "calls"
    /\ ret.fn = "load"
    /\ Len(prev) = 2
    /\ prev[1] # prev[2]
    /\ prev[1] # <<>>
    /\ os_environ # NoEnviron

---------------------------------------------------------------------------
(* Specification SpecSecrets: cloud_run.additional_flags is written flag by  *)
(* flag and pair by pair, then classified                                   *)

\* The start of a flag; a flag opened with a quote is closed with it.
FlagHead(kind, text, name) ==
    [kind |-> kind, text |-> text, env |-> "", secret |-> "", version |-> "",
     name |-> name]

\* A pair ENV=secret:version of a --update-secrets flag; name is the
\* variable when the secret name is the substitution ${name}.
Pair(env, secret, version, name) ==
    [kind |-> "pair", text |-> env \o "=" \o secret \o ":" \o version,
     env |-> env, secret |-> secret, version |-> version, name |-> name]

\* An entry between the commas that is no ENV=secret:version pair
Junk(text) ==
    [kind |-> "junk", text |-> text, env |-> "", secret |-> "", version |-> "",
     name |-> ""]

FlagHeads ==
    {FlagHead("secrets", "--update-secrets=", ""),
     FlagHead("secrets", "--update-secrets='", ""),
     FlagHead("account", "--service-account=${SA_EMAIL}", "SA_EMAIL"),
     FlagHead("account", "--service-account=sa@x.iam", ""),
     FlagHead("other", "--memory=1Gi", ""),
     FlagHead("other", "--set-secrets=K=s:1", "")}

Pairs ==
    {Pair("DB_PASS", "dbsec", "2", ""),
     Pair("API_TOKEN", "toksec", "latest", ""),
     Pair("DB_PASS", "${DB_SECRET}", "latest", "DB_SECRET"),
     Pair("OTHER", "${API_TOKEN}", "7", "API_TOKEN"),
     Junk("DB_PASS"), Junk("K=v")}

\* The text of a flag: its head, its pairs joined with commas, and the
\* closing quote of a quoted flag.
FlagText(flag) ==
    LET head == flag[1].text
        rest == Join([i \in 1..(Len(flag) - 1) |-> flag[i + 1].text], ",")
    IN  IF EndsWith(head, "'") THEN head \o rest \o "'" ELSE head \o rest

FlagTexts(flags) == [i \in 1..Len(flags) |-> FlagText(flags[i])]

\* A flag is started in additional_flags.
NewFlag(head) ==
    /\ pc = "edit"
    /\ SumLen(args.config) <= MaxEdits
    /\ args' = [args EXCEPT !.config = Append(@, <<head>>)]
    /\ UNCHANGED <<fs, os_environ, pc, ret, prev>>

\* A pair is added to the --update-secrets flag written last.
AddPair(pair) ==
    /\ pc = "edit"
    /\ SumLen(args.config) <= MaxEdits
    /\ args.config # <<>>
    /\ args.config[Len(args.config)][1].kind = "secrets"
    /\ args' = [args EXCEPT !.config[Len(args.config)] = Append(@, pair)]
    /\ UNCHANGED <<fs, os_environ, pc, ret, prev>>

\* process_secret_manager_config(additional_flags)
CallClassify ==
    /\ pc = "edit"
    /\ args' = [args EXCEPT !.additional_flags = FlagTexts(args.config)]
    /\ ret' = process_secret_manager_config(FlagTexts(args.config))
    /\ pc' = "classified"
    /\ UNCHANGED <<fs, os_environ, prev>>

InitSecrets ==
    /\ fs = NoFiles
    /\ os_environ = NoEnviron
    /\ args = NoArgs
    /\ pc = "edit"
    /\ ret = <<>>
    /\ prev = <<>>

NextSecrets ==
    \/ \E h \in FlagHeads : NewFlag(h)
    \/ \E p \in Pairs : AddPair(p)
    \/ CallClassify

SpecSecrets == InitSecrets /\ [][NextSecrets]_vars

\* The pairs written, flag by flag and in order.
RECURSIVE PairsOf(_)
PairsOf(flags) ==
    IF flags = <<>> THEN <<>>
    ELSE SelectSeq(flags[1], LAMBDA it : it.kind = "pair") \o PairsOf(Tail(flags))

LiteralPairs == SelectSeq(PairsOf(args.config), LAMBDA p : p.name = "")
PlaceholderPairs == SelectSeq(PairsOf(args.config), LAMBDA p : p.name # "")

SeqRange(seq) == {seq[i] : i \in 1..Len(seq)}

AccountPlaceholders ==
    {flag[1].name : flag \in {f \in SeqRange(args.config) :
                                 f[1].kind = "account" /\ f[1].name # ""}}

\* C12: a pair whose secret name is ${NAME} puts NAME in referenced_vars and
\* adds no binding and no secret-backed name; a pair with a literal secret
\* name adds the binding (secret, ENV) and puts ENV in secret_env_vars.
C12_SecretClassification ==
    pc = "classified" =>
        /\ \A p \in SeqRange(PlaceholderPairs) :
              /\ p.name \in ret.referenced_vars
              /\ <<p.secret, p.env>> \notin SeqRange(ret.secret_secrets)
        /\ \A p \in SeqRange(LiteralPairs) :
              /\ <<p.secret, p.env>> \in SeqRange(ret.secret_secrets)
              /\ p.env \in ret.secret_env_vars
        /\ Len(ret.secret_secrets) = Len(LiteralPairs)
        /\ ret.secret_env_vars \ {"SERVICE_ACCOUNT"} =
              {p.env : p \in SeqRange(LiteralPairs)}

\* A quoted flag with a literal pair, a pair whose secret name is a
\* substitution and an entry that is no pair.
C12_Witness ==
    /\ pc = "classified"
    /\ \E flag \in SeqRange(args.config) :
          /\ EndsWith(flag[1].text, "'")
          /\ \E i, j, k \in 2..Len(flag) :
                /\ flag[i].kind = "pair" /\ flag[i].name = ""
                /\ flag[j].kind = "pair" /\ flag[j].name # ""
                /\ flag[k].kind = "junk"
    /\ Len(ret.secret_secrets) = 1
    /\ ret.referenced_vars # {}

\* C14: --service-account=${NAME} puts NAME in referenced_vars and the
\* literal name SERVICE_ACCOUNT, not NAME, in secret_env_vars, and the flag
\* is passed through unchanged; a --service-account flag with another value
\* is only passed through.
C14_ServiceAccount ==
    pc = "classified" =>
        /\ \A flag \in SeqRange(args.config) :
              flag[1].kind = "account" =>
                 /\ InList(FlagText(flag), ret.additional_processed_flags)
                 /\ flag[1].name # "" =>
                       /\ flag[1].name \in ret.referenced_vars
                       /\ "SERVICE_ACCOUNT" \in ret.secret_env_vars
        /\ "SERVICE_ACCOUNT" \in ret.secret_env_vars <=> AccountPlaceholders # {}
        /\ ret.referenced_vars =
              AccountPlaceholders \cup {p.name : p \in SeqRange(PlaceholderPairs)}
        /\ \A n \in AccountPlaceholders :
              n \in ret.secret_env_vars =>
                 \E p \in SeqRange(LiteralPairs) : p.env = n

\* Both kinds of --service-account flag were classified.
C14_Witness ==
    /\ pc = "classified"
    /\ \E f, g \in SeqRange(args.config) :
          /\ f[1].kind = "account" /\ f[1].name # ""
          /\ g[1].kind = "account" /\ g[1].name = ""
    /\ Len(ret.additional_processed_flags) >= 2
    /\ "SERVICE_ACCOUNT" \in ret.secret_env_vars

\* C15: additional_processed_flags is additional_flags without the
\* --update-secrets flags, each flag unchanged and in input order; the
\* bindings are in the order of their pairs in the input.
C15_StableOrder ==
    pc = "classified" =>
        /\ ret.additional_processed_flags =
              SelectSeq(args.additional_flags,
                        LAMBDA f : ~StartsWith(f, "--update-secrets="))
        /\ ret.secret_secrets =
              [i \in 1..Len(LiteralPairs) |->
                  <<LiteralPairs[i].secret, LiteralPairs[i].env>>]

\* Two bindings from different pairs and a passthrough flag.
C15_Witness ==
    /\ pc = "classified"
    /\ Len(ret.secret_secrets) >= 2
    /\ ret.secret_secrets[1] # ret.secret_secrets[2]
    /\ ret.additional_processed_flags # <<>>
    /\ Len(args.additional_flags) > Len(ret.additional_processed_flags)

---------------------------------------------------------------------------
(* cloud_deployer.py: filter_env_var_flags, execute_cloud_run_deployment,    *)
(* deploy_agent                                                              *)

UpperChars ==
    {"A", "B", "C", "D", "E", "F", "G", "H", "I", "J", "K", "L", "M", "N", "O",
     "P", "Q", "R", "S", "T", "U", "V", "W", "X", "Y", "Z"}

DigitChars == {"0", "1", "2", "3", "4", "5", "6", "7", "8", "9"}

\* [A-Z0-9_]* from position i on: the position after the run.
RECURSIVE NameRunEnd(_, _)
NameRunEnd(s, i) ==
    IF i <= Len(s) /\ SubSeq(s, i, i) \in UpperChars \cup DigitChars \cup {"_"}
    THEN NameRunEnd(s, i + 1)
    ELSE i

\* \$\{[A-Z_][A-Z0-9_]*\} matches at position p.
EnvVarPatternAt(s, p) ==
    /\ p + 2 <= Len(s)
    /\ SubSeq(s, p, p + 1) = "${"
    /\ SubSeq(s, p + 2, p + 2) \in UpperChars \cup {"_"}
    /\ LET e == NameRunEnd(s, p + 3)
       IN  e <= Len(s) /\ SubSeq(s, e, e) = "}"

\* env_var_pattern.search(flag)
env_var_pattern_search(flag) == \E p \in 1..Len(flag) : EnvVarPatternAt(flag, p)

\* Returns (filtered_flags, skipped_flags).
filter_env_var_flags(flags, preserve_env) ==
    IF ~preserve_env
    THEN [filtered |-> flags, skipped |-> <<>>]
    ELSE [filtered |-> SelectSeq(flags, LAMBDA f : ~env_var_pattern_search(f)),
          skipped |-> SelectSeq(flags, LAMBDA f : env_var_pattern_search(f))]

\* The version written in the deploy command for every binding.
secret_version == "latest"

\* ",".join(f"{env_var_name}={secret_name}:latest" for ...)
secret_values_str(secret_manager_secrets) ==
    Join([i \in 1..Len(secret_manager_secrets) |->
             secret_manager_secrets[i][2] \o "=" \o secret_manager_secrets[i][1]
                 \o ":" \o secret_version], ",")

\* The secret flags of the command: none in preserve mode, else
\* --set-secrets=... or --clear-secrets.
secret_flags(secret_manager_secrets, preserve_env) ==
    IF preserve_env THEN <<>>
    ELSE IF secret_manager_secrets # <<>>
    THEN <<"--set-secrets=" \o secret_values_str(secret_manager_secrets)>>
    ELSE <<"--clear-secrets">>

\* The env-var flags of the command: none in preserve mode.
env_var_flags(env_string, preserve_env) ==
    IF preserve_env THEN <<>> ELSE <<"--set-env-vars", env_string>>

\* subprocess.run(deploy_cmd, check=True) is reached: the dry-run branch
\* returns before it.
subprocess_run_called_always(dry_run) == TRUE
subprocess_run_called(dry_run) == ~dry_run

\* deploy_cmd as assembled, the two lists of the filter, and whether
\* subprocess.run was called with it (not in a dry run).
execute_cloud_run_deployment(service_name, region, project_id, env_string, secret_manager_secrets, additional_processed_flags, dry_run, preserve_env) ==
    LET f == filter_env_var_flags(additional_processed_flags, preserve_env)
    IN  [deploy_cmd |->
            <<"gcloud", "run", "deploy", service_name, "--source", ".",
              "--region", region, "--project", project_id>>
            \o secret_flags(secret_manager_secrets, preserve_env)
            \o f.filtered
            \o env_var_flags(env_string, preserve_env),
         filtered_flags |-> f.filtered,
         skipped_flags |-> f.skipped,
         ran |-> subprocess_run_called(dry_run)]

\* The string of a config node that is a string.
NodeText(node) == IF node.t = "str" THEN node.s ELSE ""

\* cloud_run_config.get("additional_flags", [])
additional_flags_of(cloud_run_config) ==
    LET n == DictGet(cloud_run_config.xs, "additional_flags")
    IN  IF n = None THEN <<>>
        ELSE [i \in 1..Len(n[1].xs) |-> NodeText(n[1].xs[i])]

\* cloud_run_config.get("service_name", f"{agent_name}-service")
base_service_name(cloud_run_config, agent_name) ==
    LET n == DictGet(cloud_run_config.xs, "service_name")
    IN  IF n = None THEN agent_name \o "-service" ELSE NodeText(n[1])

\* config.get("cloud_run", {})
cloud_run_of(config) ==
    LET n == DictGet(config.xs, "cloud_run") IN IF n = None THEN Dict(<<>>) ELSE n[1]

\* What is on disk when deploy_agent runs: everything it needs, or the
\* agent directory missing, or main.py missing.
DiskStates == {"ok", "no_agent_dir", "no_main_py"}

\* The outcome of deploy_agent when no deploy command was assembled.
NotDeployed(made_build_dir) ==
    [returned |-> FALSE, made_build_dir |-> made_build_dir, deploy_cmd |-> None,
     ran |-> FALSE, service_name |-> "", env_string |-> "",
     secret_manager_secrets |-> <<>>, additional_processed_flags |-> <<>>,
     filtered_flags |-> <<>>, skipped_flags |-> <<>>]

\* deploy_agent after the command was executed (x): True is returned, the
\* build directory having been created and cleaned up.
deploy_agent_executed(service_name, env, x) ==
    [returned |-> TRUE, made_build_dir |-> TRUE,
     deploy_cmd |-> Some(x.deploy_cmd), ran |-> x.ran,
     service_name |-> service_name, env_string |-> env.env_string,
     secret_manager_secrets |-> env.secret_manager_secrets,
     additional_processed_flags |-> env.additional_processed_flags,
     filtered_flags |-> x.filtered_flags,
     skipped_flags |-> x.skipped_flags]

\* deploy_agent after setup_environment_variables returned env: the build
\* directory is created and execute_cloud_run_deployment called.
deploy_agent_execute(service_name, region, project_id, env, dry_run, preserve_env) ==
    deploy_agent_executed(service_name, env,
        execute_cloud_run_deployment(service_name, region, project_id,
            env.env_string, env.secret_manager_secrets,
            env.additional_processed_flags, dry_run, preserve_env))

\* deploy_agent: the agent directory is checked, the environment reconciled,
\* the build directory created, the deploy command assembled and (unless a
\* dry run) executed.
deploy_agent(agent_name, config, project_id, region, dry_run, preserve_env, service_prefix, substituted_vars, secret_referenced_vars, disk) ==
    IF disk = "no_agent_dir" THEN NotDeployed(FALSE)
    ELSE IF disk = "no_main_py" THEN NotDeployed(TRUE)
    ELSE Only({deploy_agent_execute(
             service_prefix \o base_service_name(cloud_run_of(config), agent_name),
             region, project_id, env, dry_run, preserve_env) : env \in {
             setup_environment_variables(project_id, region, Some(agent_name),
                 additional_flags_of(cloud_run_of(config)),
                 substituted_vars, secret_referenced_vars)}})

---------------------------------------------------------------------------
(* Specification SpecDeploy: the flags of the config and the env files are   *)
(* written, then deploy_agent is called                                      *)

\* A config whose cloud_run block has the given fields (name, text) and
\* additional_flags.
CloudRunConfig(fields, flags) ==
    Dict(<<[k |-> "cloud_run",
            v |-> Dict([i \in 1..Len(fields) |->
                           [k |-> fields[i][1], v |-> Str(fields[i][2])]]
                       \o <<[k |-> "additional_flags",
                             v |-> List([i \in 1..Len(flags) |-> Str(flags[i])])]>>)]>>)

\* The literal secret directives of the flags below: flag, ENV, secret name
\* and version.
DeployDirectives ==
    {[flag |-> "--update-secrets=DB_PASS=dbsec:2",
      env |-> "DB_PASS", secret |-> "dbsec", version |-> "2"],
     [flag |-> "--update-secrets=GOOGLE_API_KEY=gsec:latest,TOKEN=${TOKEN_SECRET}:3",
      env |-> API_KEY, secret |-> "gsec", version |-> "latest"]}

DeployFlags ==
    {d.flag : d \in DeployDirectives}
    \cup {"--service-account=${SA_EMAIL}", "--service-account=${sa_email}",
          "--memory=1Gi"}

DeployDefs ==
    {<<RootEnvFile, VERTEXAI, "true">>, <<A1SecretsFile, "DB_PASS", "pw">>}

\* (dry_run, preserve_env, service_prefix, disk) of a call
DeployCalls ==
    {<<FALSE, FALSE, "", "ok">>, <<TRUE, FALSE, "dev-", "ok">>,
     <<FALSE, TRUE, "", "ok">>, <<TRUE, TRUE, "stag-", "ok">>,
     <<FALSE, FALSE, "", "no_agent_dir">>, <<FALSE, FALSE, "", "no_main_py">>}

\* handle_deployment: deploy_agent(args.deploy, config, secrets, project_id,
\* location_deploy, ...)
CallDeployAgent(dry_run, preserve_env, service_prefix, disk) ==
    /\ pc = "edit"
    /\ args' = [args EXCEPT !.agent_name = Some("a1"), !.project_id = "p1",
                            !.region = "us-central1"]
    /\ prev' = [dry_run |-> dry_run, preserve_env |-> preserve_env,
                service_prefix |-> service_prefix, disk |-> disk]
    /\ ret' = deploy_agent("a1",
                  CloudRunConfig(<<<<"service_name", "svc">>>>, args.additional_flags),
                  "p1", "us-central1", dry_run, preserve_env, service_prefix,
                  args.substituted_vars, args.secret_referenced_vars, disk)
    /\ pc' = "deployed"
    /\ UNCHANGED <<fs, os_environ>>

InitDeploy ==
    /\ fs = NoFiles
    /\ os_environ = NoEnviron
    /\ args = NoArgs
    /\ pc = "edit"
    /\ ret = <<>>
    /\ prev = <<>>

NextDeploy ==
    \/ \E f \in DeployFlags : AddFlag(f)
    \/ \E d \in DeployDefs : WriteEnvFile(d[1], d[2], d[3])
    \/ \E c \in DeployCalls : CallDeployAgent(c[1], c[2], c[3], c[4])

SpecDeploy == InitDeploy /\ [][NextDeploy]_vars

\* A deploy command was assembled.
Assembled == pc = "deployed" /\ ret.deploy_cmd # None

Cmd == ret.deploy_cmd[1]

\* The flags of the command that set, update or clear secrets.
SecretFlagsOfCmd ==
    SelectSeq(Cmd, LAMBDA a : \/ StartsWith(a, "--set-secrets")
                              \/ StartsWith(a, "--update-secrets")
                              \/ StartsWith(a, "--clear-secrets"))

\* The directives of the config that setup_environment_variables returns a
\* binding for.
BoundDirectives ==
    {d \in DeployDirectives :
        /\ InList(d.flag, args.additional_flags)
        /\ InList(<<d.secret, d.env>>, ret.secret_manager_secrets)}

\* The entries of the --set-secrets flag of the command.
SetSecretsEntries ==
    UNION {SeqRange(SplitAll(SubSeq(Cmd[i], Len("--set-secrets=") + 1, Len(Cmd[i])), ",")) :
             i \in {j \in 1..Len(Cmd) : StartsWith(Cmd[j], "--set-secrets=")}}

\* C13: the version of a literal directive ENV=secret:version is part of
\* its binding and is the version written for ENV in --set-secrets.
C13_VersionCarried ==
    (Assembled /\ ~prev.preserve_env) =>
        \A d \in BoundDirectives :
            /\ InList(<<d.secret, d.env, d.version>>, ret.secret_manager_secrets)
            /\ (d.env \o "=" \o d.secret \o ":" \o d.version) \in SetSecretsEntries

\* The --set-secrets flag the bindings give when every version is "latest".
SetSecretsLatest ==
    "--set-secrets=" \o
    Join([i \in 1..Len(ret.secret_manager_secrets) |->
             ret.secret_manager_secrets[i][2] \o "=" \o
             ret.secret_manager_secrets[i][1] \o ":latest"], ",")

\* The --set-secrets flag the bindings give with the versions of their
\* directives.
VersionOf(binding) ==
    (CHOOSE d \in DeployDirectives : <<d.secret, d.env>> = binding).version

SetSecretsConfigured ==
    "--set-secrets=" \o
    Join([i \in 1..Len(ret.secret_manager_secrets) |->
             ret.secret_manager_secrets[i][2] \o "=" \o
             ret.secret_manager_secrets[i][1] \o ":" \o
             VersionOf(ret.secret_manager_secrets[i])], ",")

\* The command but for its secret flag: --set-env-vars followed by the env
\* string, once, and every passthrough flag verbatim and in order.
RestOfFullCommand ==
    /\ Len(SecretFlagsOfCmd) = 1
    /\ \E i \in 1..(Len(Cmd) - 1) :
          Cmd[i] = "--set-env-vars" /\ Cmd[i + 1] = ret.env_string
    /\ Cardinality({i \in 1..Len(Cmd) : Cmd[i] = "--set-env-vars"}) = 1
    /\ \A a \in SeqRange(Cmd) : ~StartsWith(a, "--update-env-vars")
    /\ SelectSeq(Cmd, LAMBDA a : InList(a, ret.additional_processed_flags)) =
          ret.additional_processed_flags

\* C17: without preserve_env the command has exactly one secret flag,
\* --set-secrets=<ENV=secret:version of every binding, in order> or, with no
\* binding, --clear-secrets, and has --set-env-vars with the env string and
\* every passthrough flag verbatim.
C17_FullDeploymentFlags ==
    (Assembled /\ ~prev.preserve_env) =>
        /\ RestOfFullCommand
        /\ SecretFlagsOfCmd[1] =
              IF ret.secret_manager_secrets = <<>> THEN "--clear-secrets"
              ELSE SetSecretsConfigured

\* What holds of the command of a full deployment: as C17, with "latest"
\* written for every binding.
FullDeploymentFlagsLatest ==
    (Assembled /\ ~prev.preserve_env) =>
        /\ RestOfFullCommand
        /\ SecretFlagsOfCmd[1] =
              IF ret.secret_manager_secrets = <<>> THEN "--clear-secrets"
              ELSE SetSecretsLatest

\* C18: with preserve_env the command passes the env string with
\* --update-env-vars and the bindings with --update-secrets.
C18_PreserveUsesUpdateFlags ==
    (Assembled /\ prev.preserve_env) =>
        /\ \E i \in 1..(Len(Cmd) - 1) :
              Cmd[i] = "--update-env-vars" /\ Cmd[i + 1] = ret.env_string
        /\ ret.secret_manager_secrets # <<>> =>
              \E a \in SeqRange(Cmd) : StartsWith(a, "--update-secrets=")

\* What holds of the command in preserve mode: no flag for env vars and no
\* flag for secrets at all.
PreserveSkipsEnvAndSecrets ==
    (Assembled /\ prev.preserve_env) =>
        /\ SecretFlagsOfCmd = <<>>
        /\ \A a \in SeqRange(Cmd) :
              ~StartsWith(a, "--set-env-vars") /\ ~StartsWith(a, "--update-env-vars")

\* A flag holds a substitution ${...} as substitute_env_vars reads them.
HasSubstitution(flag) == \E p \in 1..Len(flag) : MatchEnd(flag, p) # 0

\* C19: with preserve_env the filtered and the skipped flags are the
\* passthrough flags, each once and in order, the skipped ones being those
\* that hold a substitution ${...}, none of which is in the command; without
\* preserve_env the flags are unchanged and none is skipped.
C19_PreserveFilter ==
    Assembled =>
        LET flags == ret.additional_processed_flags
        IN  IF prev.preserve_env
            THEN /\ ret.skipped_flags = SelectSeq(flags, HasSubstitution)
                 /\ ret.filtered_flags =
                       SelectSeq(flags, LAMBDA f : ~HasSubstitution(f))
                 /\ \A a \in SeqRange(Cmd) : ~HasSubstitution(a)
            ELSE ret.filtered_flags = flags /\ ret.skipped_flags = <<>>

\* What holds of the filter: the skipped flags are those that hold ${NAME}
\* with NAME an upper-case identifier.
PreserveFilterUpperCase ==
    Assembled =>
        LET flags == ret.additional_processed_flags
        IN  IF prev.preserve_env
            THEN /\ ret.skipped_flags = SelectSeq(flags, env_var_pattern_search)
                 /\ ret.filtered_flags =
                       SelectSeq(flags, LAMBDA f : ~env_var_pattern_search(f))
            ELSE ret.filtered_flags = flags /\ ret.skipped_flags = <<>>

---------------------------------------------------------------------------
(* deploy_agent.py: load_dotenv at import, load_agent_config,                *)
(* handle_deployment                                                         *)

LOCATION_DEPLOY == "GOOGLE_CLOUD_LOCATION_DEPLOY"

\* find_dotenv(): the first .env that exists, from the directory of
\* deploy_agent.py upwards (utils/ itself holds none).
find_dotenv ==
    LET up1 == PathJoin(Parent(UtilsDir), ".env")
        up2 == PathJoin(Parent(Parent(UtilsDir)), ".env")
    IN  IF Exists(up1) THEN Some(up1) ELSE IF Exists(up2) THEN Some(up2) ELSE None

\* os.environ after load_dotenv(): the variables of the file found are
\* exported, those already set keep their value.
load_dotenv ==
    IF find_dotenv = None THEN os_environ
    ELSE LET values == dotenv_values(find_dotenv[1])
         IN  [n \in DOMAIN os_environ |->
                 IF os_environ[n] = None THEN DictGet(values, n) ELSE os_environ[n]]

\* load_agent_config(agent_name) for a config.yaml that exists: the
\* substituted config, substituted_vars, and the secret_referenced_vars of
\* the flags as written.
load_agent_config(config, agent_name) ==
    LET smc == process_secret_manager_config(additional_flags_of(cloud_run_of(config)))
        sub == substitute_env_vars(config, Some(agent_name))
    IN  [config |-> sub.config, substituted_vars |-> sub.substituted_vars,
         secret_referenced_vars |-> smc.referenced_vars]

\* cloud_run_config.get(key): None or the string
config_get(cloud_run_config, key) ==
    LET n == DictGet(cloud_run_config.xs, key)
    IN  IF n = None THEN None ELSE Some(NodeText(n[1]))

\* sys.exit(1) at the given stage, deploy_agent not called
Exit1(stage, config) ==
    [exit |-> 1, stage |-> stage, config |-> config, called |-> FALSE,
     project_id |-> "", region |-> "", deploy |-> NotDeployed(FALSE)]

\* handle_deployment after deploy_agent returned d: exit status 1 unless it
\* succeeded.
handle_deployment_deployed(config, project_id, region, d) ==
    [exit |-> IF d.returned THEN 0 ELSE 1, stage |-> "deploy",
     config |-> config, called |-> TRUE,
     project_id |-> project_id, region |-> region, deploy |-> d]

\* handle_deployment once project and location are resolved: they are
\* validated and deploy_agent is called.
handle_deployment_resolved(result, agent_name, project_id, location_deploy, dry_run, preserve_env, service_prefix, disk) ==
    IF ~Truthy(project_id) THEN Exit1("project", result.config)
    ELSE IF ~Truthy(location_deploy) THEN Exit1("location", result.config)
    ELSE handle_deployment_deployed(result.config, project_id[1],
             location_deploy[1],
             deploy_agent(agent_name, result.config, project_id[1],
                 location_deploy[1], dry_run, preserve_env, service_prefix,
                 result.substituted_vars, result.secret_referenced_vars, disk))

\* handle_deployment once load_agent_config returned result: the project
\* and the location are the environment's, else the config's.
handle_deployment_loaded(result, agent_name, dry_run, preserve_env, service_prefix, disk) ==
    LET cloud_run_config == cloud_run_of(result.config)
        config_project == config_get(cloud_run_config, "gcp_project")
        config_location == config_get(cloud_run_config, "gcp_location")
        env_project == get_env_var(PROJECT, None)
        env_location_deploy == get_env_var(LOCATION_DEPLOY, None)
        env_location_api == get_env_var(LOCATION, None)
    IN  handle_deployment_resolved(result, agent_name,
            Or(env_project, config_project),
            Or(Or(env_location_deploy, env_location_api), config_location),
            dry_run, preserve_env, service_prefix, disk)

\* handle_deployment(args) for --deploy a1
handle_deployment(config, agent_name, dry_run, preserve_env, dev, stag, disk) ==
    IF dev /\ stag THEN Exit1("flags", Dict(<<>>))
    ELSE IF disk = "no_config" THEN Exit1("config", Dict(<<>>))
    ELSE Only({handle_deployment_loaded(result,
             agent_name, dry_run, preserve_env,
             IF dev THEN "dev-" ELSE IF stag THEN "stag-" ELSE "", disk) : result \in {load_agent_config(config, agent_name)}})

---------------------------------------------------------------------------
(* Specification SpecPipeline: config.yaml, the env files and the process    *)
(* environment are written, deploy_agent.py is imported and                  *)
(* handle_deployment runs                                                    *)

\* The cloud_run fields of config.yaml as found at the start.
StartFields ==
    {<<<<"gcp_project", "cfgproj">>, <<"gcp_location", "cfgloc">>,
       <<"service_name", "svc">>>>,
     <<<<"gcp_project", "${GOOGLE_CLOUD_PROJECT}">>,
       <<"gcp_location", "${GOOGLE_CLOUD_LOCATION:-}">>,
       <<"service_name", "svc">>>>,
     <<<<"gcp_location", "cfgloc">>, <<"service_name", "svc">>>>,
     <<<<"gcp_project", "">>, <<"gcp_location", "cfgloc">>,
       <<"service_name", "svc">>>>,
     <<<<"gcp_project", "cfgproj">>, <<"service_name", "svc">>>>,
     <<<<"gcp_project", "cfgproj">>, <<"gcp_location", "cfgloc">>>>,
     <<<<"gcp_project", "cfgproj">>, <<"gcp_location", "cfgloc">>,
       <<"service_name", "">>>>,
     <<>>}

PipelineDefs ==
    {<<RootEnvFile, PROJECT, "fileproj">>, <<RootEnvFile, LOCATION, "'fileloc'">>,
     <<A1SecretsFile, PROJECT, "agentproj">>, <<A1SecretsFile, "DB_SECRET", "dbsec">>,
     <<A1SecretsFile, "DB_PASS", "pw">>}

PipelineEnviron == {<<PROJECT, "osproj">>, <<LOCATION_DEPLOY, "osloc">>}

PipelineFlags ==
    {"--update-secrets=DB_PASS=${DB_SECRET}:latest",
     "--update-secrets=DB_PASS=litsec:1", "--memory=1Gi"}

\* (dry_run, preserve_env, dev, stag, disk) of a run
PipelineCalls ==
    {<<FALSE, FALSE, FALSE, FALSE, "ok">>, <<TRUE, FALSE, TRUE, FALSE, "ok">>,
     <<FALSE, TRUE, FALSE, TRUE, "ok">>, <<FALSE, FALSE, TRUE, TRUE, "ok">>,
     <<FALSE, FALSE, FALSE, FALSE, "no_config">>,
     <<FALSE, FALSE, FALSE, FALSE, "no_main_py">>}

\* The arguments, with the cloud_run fields of config.yaml.
PipelineArgs(fields) ==
    [agent_name |-> Some("a1"), config |-> <<>>, project_id |-> "",
     region |-> "", additional_flags |-> <<>>, substituted_vars |-> {},
     secret_referenced_vars |-> {}, fields |-> fields]

\* deploy_agent.py is imported: load_dotenv() runs at module level.
ImportDeployAgent ==
    /\ pc = "edit"
    /\ os_environ' = load_dotenv
    /\ pc' = "imported"
    /\ UNCHANGED <<fs, args, ret, prev>>

\* main: handle_deployment(args)
HandleDeployment(dry_run, preserve_env, dev, stag, disk) ==
    /\ pc = "imported"
    /\ prev' = [dry_run |-> dry_run, preserve_env |-> preserve_env,
                dev |-> dev, stag |-> stag, disk |-> disk]
    /\ ret' = handle_deployment(CloudRunConfig(args.fields, args.additional_flags),
                                "a1", dry_run, preserve_env, dev, stag, disk)
    /\ pc' = "handled"
    /\ UNCHANGED <<fs, os_environ, args>>

InitPipeline ==
    /\ fs = NoFiles
    /\ os_environ = NoEnviron
    /\ args \in {PipelineArgs(fields) : fields \in StartFields}
    /\ pc = "edit"
    /\ ret = <<>>
    /\ prev = <<>>

NextPipeline ==
    \/ \E d \in PipelineDefs : WriteEnvFile(d[1], d[2], d[3])
    \/ \E e \in PipelineEnviron : SetEnviron(e[1], e[2])
    \/ \E f \in PipelineFlags : AddFlag(f)
    \/ ImportDeployAgent
    \/ \E c \in PipelineCalls : HandleDeployment(c[1], c[2], c[3], c[4], c[5])

SpecPipeline == InitPipeline /\ [][NextPipeline]_vars

\* A required field of the cloud_run block is absent or empty after
\* substitution.
FieldMissing(name) ==
    ~Truthy(config_get(cloud_run_of(ret.config), name))

\* config.yaml was read and substituted.
ConfigLoaded == pc = "handled" /\ ret.stage \notin {"flags", "config"}

\* The deployment ended in a failure before any deployment attempt.
FailedBeforeDeploy ==
    /\ ret.exit = 1
    /\ ~ret.deploy.made_build_dir
    /\ ret.deploy.deploy_cmd = None
    /\ ~ret.deploy.ran

\* C20: when cloud_run.gcp_project, cloud_run.gcp_location or
\* cloud_run.service_name is absent or empty after substitution, the
\* deployment fails before any build directory is created and any deploy
\* command is assembled or run.
C20_MissingFieldFails ==
    (ConfigLoaded /\ \E name \in {"gcp_project", "gcp_location", "service_name"} :
                        FieldMissing(name))
        => FailedBeforeDeploy

\* What holds of handle_deployment: it fails before deploy_agent exactly
\* when no project (process environment, else config) or no location
\* (GOOGLE_CLOUD_LOCATION_DEPLOY, else GOOGLE_CLOUD_LOCATION, else config)
\* resolves; the service name is never checked.
FailsOnlyWhenUnresolved ==
    ConfigLoaded =>
        LET no_project ==
                /\ ~Truthy(get_env_var(PROJECT, None))
                /\ FieldMissing("gcp_project")
            no_location ==
                /\ ~Truthy(get_env_var(LOCATION_DEPLOY, None))
                /\ ~Truthy(get_env_var(LOCATION, None))
                /\ FieldMissing("gcp_location")
        IN  /\ (no_project \/ no_location) <=> ~ret.called
            /\ ~ret.called => FailedBeforeDeploy

---------------------------------------------------------------------------
(* deploy_agent.py: list_agents *)

\* agents/<name>/config.yaml: a document that is not YAML, or the value
\* yaml.safe_load gives for it.
ConfigFile(malformed, value) == [malformed |-> malformed, value |-> value]

\* The exception that leaves load_agent_config for this config.yaml, or "":
\* yaml.safe_load raises YAMLError, .get is called on the document and on
\* its cloud_run value, and additional_flags is iterated.
load_agent_config_raises(file) ==
    IF file.malformed THEN "YAMLError"
    ELSE IF file.value.t # "dict" THEN "AttributeError"
    ELSE LET cloud_run == DictGet(file.value.xs, "cloud_run")
         IN  IF cloud_run = None THEN ""
             ELSE IF cloud_run[1].t # "dict" THEN "AttributeError"
             ELSE LET flags == DictGet(cloud_run[1].xs, "additional_flags")
                  IN  IF flags = None THEN ""
                      ELSE IF flags[1].t = "other" THEN "TypeError"
                      ELSE ""

\* The loop of list_agents over agents_dir.iterdir(), the directories coming
\* in the order dirs: a directory without config.yaml is skipped, an
\* exception of load_agent_config leaves list_agents, a loaded agent is
\* appended.
RECURSIVE list_agents_loop(_, _, _)
list_agents_loop(files, dirs, agents) ==
    IF dirs = <<>> THEN [raised |-> "", agents |-> agents]
    ELSE IF files[dirs[1]] = None
    THEN list_agents_loop(files, Tail(dirs), agents)
    ELSE IF load_agent_config_raises(files[dirs[1]][1]) # ""
    THEN [raised |-> load_agent_config_raises(files[dirs[1]][1]), agents |-> <<>>]
    ELSE list_agents_loop(files, Tail(dirs),
             Append(agents,
                    [name |-> dirs[1],
                     config |-> load_agent_config(files[dirs[1]][1].value,
                                                  dirs[1]).config]))

\* list_agents(): the exception raised ("" if none) and the list returned.
list_agents(files, dirs) == list_agents_loop(files, dirs, <<>>)

---------------------------------------------------------------------------
(* Specification SpecList: config.yaml files of two agents and the env files *)
(* are written, then list_agents is called                                   *)

ListAgentNames == {"a1", "a2"}

\* The orders in which iterdir() can give the agent directories.
ListOrders == {<<"a1", "a2">>, <<"a2", "a1">>}

ListConfigFiles ==
    {ConfigFile(FALSE, Dict(<<[k |-> "description", v |-> Str("d ${A}")]>>)),
     ConfigFile(FALSE, CloudRunConfig(<<<<"service_name", "svc">>>>,
                                      <<"--update-secrets=DB_PASS=${S}:1">>)),
     ConfigFile(FALSE, Dict(<<>>)),
     ConfigFile(TRUE, Other("")),
     ConfigFile(FALSE, Other("None")),
     ConfigFile(FALSE, List(<<Str("x")>>)),
     ConfigFile(FALSE, Dict(<<[k |-> "cloud_run", v |-> Other("None")]>>)),
     ConfigFile(FALSE,
         Dict(<<[k |-> "cloud_run",
                 v |-> Dict(<<[k |-> "additional_flags",
                               v |-> Other("None")]>>)]>>))}

ListDefs == {<<RootEnvFile, "A", "x">>, <<A1SecretsFile, "A", "y">>}

ListArgs ==
    [agent_name |-> None, config |-> <<>>, project_id |-> "", region |-> "",
     additional_flags |-> <<>>, substituted_vars |-> {},
     secret_referenced_vars |-> {},
     files |-> [a \in ListAgentNames |-> None]]

\* agents/<name>/config.yaml is written.
WriteConfigFile(name, file) ==
    /\ pc = "edit"
    /\ args.files[name] = None
    /\ args' = [args EXCEPT !.files[name] = Some(file)]
    /\ UNCHANGED <<fs, os_environ, pc, ret, prev>>

\* python deploy_agent.py --list
CallListAgents(dirs) ==
    /\ pc = "edit"
    /\ prev' = dirs
    /\ ret' = list_agents(args.files, dirs)
    /\ pc' = "listed"
    /\ UNCHANGED <<fs, os_environ, args>>

InitList ==
    /\ fs = NoFiles
    /\ os_environ = NoEnviron
    /\ args = ListArgs
    /\ pc = "edit"
    /\ ret = <<>>
    /\ prev = <<>>

NextList ==
    \/ \E a \in ListAgentNames, f \in ListConfigFiles : WriteConfigFile(a, f)
    \/ \E d \in ListDefs : WriteEnvFile(d[1], d[2], d[3])
    \/ \E dirs \in ListOrders : CallListAgents(dirs)

SpecList == InitList /\ [][NextList]_vars

\* The agents whose config.yaml load_agent_config loads.
ValidAgents ==
    {a \in ListAgentNames :
        args.files[a] # None /\ load_agent_config_raises(args.files[a][1]) = ""}

\* The agents whose config.yaml makes load_agent_config fail.
FailingAgents ==
    {a \in ListAgentNames :
        args.files[a] # None /\ load_agent_config_raises(args.files[a][1]) # ""}

ListedNames == {ret.agents[i].name : i \in 1..Len(ret.agents)}

\* C21: Sibling isolation: a failure to load one agent's configuration is
\* never raised by list_agents, and every agent with a valid config.yaml is
\* listed.
C21_SiblingIsolation ==
    pc = "listed" => ret.raised = "" /\ ValidAgents \subseteq ListedNames

\* What list_agents does: it raises as soon as one config.yaml fails to
\* load, and lists every agent that has a config.yaml otherwise.
ListAbortsOnFirstFailure ==
    pc = "listed" =>
        /\ (ret.raised # "") <=> (FailingAgents # {})
        /\ ret.raised # "" => ret.agents = <<>>
        /\ ret.raised = "" =>
              /\ ListedNames = ValidAgents
              /\ Len(ret.agents) = Cardinality(ValidAgents)

---------------------------------------------------------------------------
(* run_hooks.py: main, run_hooks_for_stage, run_hook_script *)

\* The total number of hooks config.yaml lists.
MaxHooks == 3

HookStages == {"pre_deploy", "post_deploy"}

HookPaths == {"scripts/a.sh", "scripts/b.sh"}

\* What happens to one hook script: it is not there, it exits with status
\* 0, it exits with another status, or chmod / subprocess.run raises.
HookOutcomes == {"missing", "zero", "nonzero", "error"}

\* sys.argv[3:] of python run_hooks.py <agent-name> <stage> ...
HookArgv == {<<>>, <<"--skip-hooks">>, <<"true">>, <<"false">>}

\* main: skip_hooks = sys.argv[3] if len(sys.argv) > 3 else "false"
skip_hooks_of(argv) == IF Len(argv) > 0 THEN argv[1] ELSE "false"

\* run_hooks_for_stage: if skip_hooks == "true"
skipped(skip_hooks) == skip_hooks = "true"

\* run_hook_script returns True
run_hook_script_any_exit(outcome) == outcome \in {"zero", "nonzero"}
run_hook_script(outcome) == outcome = "zero"

\* run_hook_script calls subprocess.run on the script
executes(outcome) == outcome # "missing"

\* hooks.get(stage, []): the hooks config.yaml lists for the stage
stage_hooks_of(hooks, stage) == hooks[stage]

\* main after run_hooks_for_stage returned result
HooksExit(run, result) ==
    [run EXCEPT !.result = Some(result), !.exit = Some(IF result THEN 0 ELSE 1)]

NoRun ==
    [stage |-> "", skip_hooks |-> "", stage_hooks |-> <<>>, i |-> 0,
     log |-> <<>>, result |-> None, exit |-> None]

\* A hook is added to a stage of the hooks section of config.yaml.
AddHook(stage, path) ==
    /\ pc = "edit"
    /\ SumLen(<<args.pre_deploy, args.post_deploy>>) < MaxHooks
    /\ args' = [args EXCEPT ![stage] = Append(@, path)]
    /\ UNCHANGED <<fs, os_environ, pc, ret, prev>>

\* python run_hooks.py a1 <stage> [argv]: main and run_hooks_for_stage up to
\* its loop.
HooksMain(stage, argv) ==
    /\ pc = "edit"
    /\ prev' = argv
    /\ LET run == [NoRun EXCEPT !.stage = stage,
                                !.skip_hooks = skip_hooks_of(argv),
                                !.stage_hooks = stage_hooks_of(args, stage),
                                !.i = 1]
       IN  IF skipped(run.skip_hooks) \/ run.stage_hooks = <<>>
           THEN ret' = HooksExit(run, TRUE) /\ pc' = "exited"
           ELSE ret' = run /\ pc' = "running"
    /\ UNCHANGED <<fs, os_environ, args>>

\* One iteration of the loop of run_hooks_for_stage: run_hook_script on the
\* next hook, with the given outcome.
RunHookScript(outcome) ==
    /\ pc = "running"
    /\ LET run == [ret EXCEPT !.log = Append(@, [hook |-> ret.stage_hooks[ret.i],
                                                outcome |-> outcome]),
                              !.i = @ + 1]
       IN  IF ~run_hook_script(outcome)
           THEN ret' = HooksExit(run, FALSE) /\ pc' = "exited"
           ELSE IF run.i > Len(run.stage_hooks)
           THEN ret' = HooksExit(run, TRUE) /\ pc' = "exited"
           ELSE ret' = run /\ pc' = "running"
    /\ UNCHANGED <<fs, os_environ, args, prev>>

---------------------------------------------------------------------------
(* Specification SpecHooks: the hooks of config.yaml are written, then       *)
(* run_hooks.py runs a stage                                                 *)

InitHooks ==
    /\ fs = NoFiles
    /\ os_environ = NoEnviron
    /\ args = [pre_deploy |-> <<>>, post_deploy |-> <<>>]
    /\ pc = "edit"
    /\ ret = NoRun
    /\ prev = <<>>

NextHooks ==
    \/ \E stage \in HookStages, path \in HookPaths : AddHook(stage, path)
    \/ \E stage \in HookStages, argv \in HookArgv : HooksMain(stage, argv)
    \/ \E outcome \in HookOutcomes : RunHookScript(outcome)

SpecHooks == InitHooks /\ [][NextHooks]_vars

\* The hooks whose script was executed, in the order of execution.
Executed == SelectSeq(ret.log, LAMBDA e : executes(e.outcome))

HooksDone == pc = "exited"

\* C22: Skipping hooks: with the --skip-hooks flag no hook of the stage is
\* executed and the exit status is 0; without it every hook of the stage is
\* executed.
C22_SkipHooksFlag ==
    HooksDone =>
        IF prev = <<"--skip-hooks">>
        THEN Executed = <<>> /\ ret.exit = Some(0)
        ELSE prev = <<>> /\ ret.exit = Some(0) =>
                 [i \in 1..Len(Executed) |-> Executed[i].hook] = ret.stage_hooks

\* What the code does: only a third argument that is the string "true"
\* skips the hooks; with any other one, --skip-hooks included, the hooks are
\* run as without it.
SkipsOnlyOnTrue ==
    HooksDone =>
        /\ prev = <<"true">> => ret.log = <<>> /\ ret.exit = Some(0)
        /\ prev # <<"true">> /\ ret.exit = Some(0) =>
               [i \in 1..Len(Executed) |-> Executed[i].hook] = ret.stage_hooks

\* The hooks were run in the listed order, one after the other, up to the
\* first one that failed.
InOrderUpToFirstFailure ==
    /\ Len(ret.log) <= Len(ret.stage_hooks)
    /\ \A j \in 1..Len(ret.log) :
          /\ ret.log[j].hook = ret.stage_hooks[j]
          /\ j < Len(ret.log) => ret.log[j].outcome = "zero"

AllSucceeded ==
    /\ Len(ret.log) = Len(ret.stage_hooks)
    /\ \A j \in 1..Len(ret.log) : ret.log[j].outcome = "zero"

---------------------------------------------------------------------------
(* auth_middleware.py: decode_google_iam_token, AuthenticationMiddleware *)

\* The number of claims of the token's payload.
MaxClaims == 2

\* The token whose payload is the claims written; every other token is not
\* a JWT.
GoodToken == "tok"

\* decode_google_iam_token: the claims of the token, {} when jwt.decode
\* raises.
decode_google_iam_token(token, payload) ==
    IF token = GoodToken THEN payload ELSE <<>>

\* Python's truth value of claims.get(name): None, null and "" are false.
ClaimTruthy(claim) == claim # None /\ claim[1].t = "str" /\ claim[1].s # ""

\* The part of an address before the first "@": s.split("@")[0]
local_part(s) == SplitFirst(s, "@")[1]

\* claims.get("email", "").split("@") raises AttributeError when the email
\* claim is not a string.
email_raises(claims) ==
    DictGet(claims, "email") # None /\ DictGet(claims, "email")[1].t # "str"

email_local_part(claims) ==
    IF DictGet(claims, "email") = None THEN ""
    ELSE local_part(DictGet(claims, "email")[1].s)

NoUser == [raised |-> "", user_id |-> None]
User(user_id) == [raised |-> "", user_id |-> Some(user_id)]

\* user_id = sub or local part of email or name or user_id
claims_user_id(claims) ==
    IF ClaimTruthy(DictGet(claims, "sub")) THEN User(DictGet(claims, "sub")[1].s)
    ELSE IF email_raises(claims) THEN [raised |-> "AttributeError", user_id |-> None]
    ELSE IF email_local_part(claims) # "" THEN User(email_local_part(claims))
    ELSE IF ClaimTruthy(DictGet(claims, "name")) THEN User(DictGet(claims, "name")[1].s)
    ELSE IF ClaimTruthy(DictGet(claims, "user_id"))
    THEN User(DictGet(claims, "user_id")[1].s)
    ELSE NoUser

\* request.headers.get(name, "")
header(headers, name) == IF headers[name] = None THEN "" ELSE headers[name][1]

\* Priority 1: the claims of a Bearer token
iam_user_id(headers, payload) ==
    IF StartsWith(header(headers, "authorization"), "Bearer ")
    THEN LET authorization == header(headers, "authorization")
             claims == decode_google_iam_token(
                           SubSeq(authorization, 8, Len(authorization)), payload)
         IN  IF claims # <<>> THEN claims_user_id(claims) ELSE NoUser
    ELSE NoUser

\* Priorities 2 to 4: the IAP header, the X-User-ID header, the fallback
header_user_id(headers) ==
    IF header(headers, "x-goog-authenticated-user-email") # ""
    THEN User(local_part(header(headers, "x-goog-authenticated-user-email")))
    ELSE IF header(headers, "x-user-id") # ""
    THEN User(header(headers, "x-user-id"))
    ELSE User("development_user")

\* AuthenticationMiddleware._extract_user_id_from_headers
extract_user_id_from_headers(headers, payload) ==
    LET iam == iam_user_id(headers, payload)
    IN  IF iam.raised # "" \/ iam.user_id # None THEN iam
        ELSE header_user_id(headers)

skip_paths == {"/list-apps", "/debug/", "/favicon.ico"}

\* The path of the request handed to call_next: the element after "users"
\* is replaced by the user id.
rewritten_path(path, user_id) ==
    LET path_parts == SplitAll(path, "/")
    IN  IF Contains(path, "/users/")
           /\ \E i \in 1..(Len(path_parts) - 1) : path_parts[i] = "users"
        THEN LET users_index ==
                     CHOOSE i \in 1..Len(path_parts) :
                         /\ path_parts[i] = "users"
                         /\ \A j \in 1..(i - 1) : path_parts[j] # "users"
             IN  IF users_index + 1 <= Len(path_parts)
                 THEN Join([path_parts EXCEPT ![users_index + 1] = user_id], "/")
                 ELSE path
        ELSE path

\* AuthenticationMiddleware.dispatch: the exception raised, request.state.
\* user_id (None when not set) and the path call_next sees.
dispatch(path, headers, payload) ==
    IF path \in {"/", "/dev-ui", "/dev-ui/"} \/ StartsWith(path, "/dev-ui/")
    THEN LET u == extract_user_id_from_headers(headers, payload)
         IN  [raised |-> u.raised, user_id |-> u.user_id, path |-> path]
    ELSE IF \E p \in skip_paths : StartsWith(path, p)
    THEN [raised |-> "", user_id |-> None, path |-> path]
    ELSE LET u == extract_user_id_from_headers(headers, payload)
         IN  [raised |-> u.raised, user_id |-> u.user_id,
              path |-> IF u.raised # "" THEN path
                       ELSE rewritten_path(path, u.user_id[1])]

---------------------------------------------------------------------------
(* Specification SpecAuth: the payload of the token and the headers of a     *)
(* request are written, then the request is dispatched                       *)

HeaderNames == {"authorization", "x-goog-authenticated-user-email", "x-user-id"}

HeaderValues ==
    {<<"authorization", "Bearer tok">>, <<"authorization", "Bearer junk">>,
     <<"authorization", "Basic tok">>,
     <<"x-goog-authenticated-user-email", "iap@example.com">>,
     <<"x-goog-authenticated-user-email", "@example.com">>,
     <<"x-user-id", "tester">>}

ClaimValues ==
    {<<"sub", Str("s1")>>, <<"sub", Str("")>>,
     <<"email", Str("mail@example.com")>>, <<"email", Str("@example.com")>>,
     <<"email", Other("None")>>,
     <<"name", Str("n1")>>, <<"user_id", Str("u1")>>, <<"user_id", Other("None")>>}

RequestPaths == {"/", "/list-apps", "/run", "/apps/a/users/u0/sessions"}

\* A claim is written to the payload of the token.
AddClaim(name, value) ==
    /\ pc = "edit"
    /\ Len(args.payload) < MaxClaims
    /\ DictGet(args.payload, name) = None
    /\ args' = [args EXCEPT !.payload = DictSet(@, name, value)]
    /\ UNCHANGED <<fs, os_environ, pc, ret, prev>>

\* A header is set on the request.
SetHeader(name, value) ==
    /\ pc = "edit"
    /\ args.headers[name] = None
    /\ args' = [args EXCEPT !.headers[name] = Some(value)]
    /\ UNCHANGED <<fs, os_environ, pc, ret, prev>>

\* The middleware handles the request.
Dispatch(path) ==
    /\ pc = "edit"
    /\ prev' = path
    /\ ret' = dispatch(path, args.headers, args.payload)
    /\ pc' = "dispatched"
    /\ UNCHANGED <<fs, os_environ, args>>

InitAuth ==
    /\ fs = NoFiles
    /\ os_environ = NoEnviron
    /\ args = [payload |-> <<>>, headers |-> [n \in HeaderNames |-> None]]
    /\ pc = "edit"
    /\ ret = <<>>
    /\ prev = <<>>

NextAuth ==
    \/ \E c \in ClaimValues : AddClaim(c[1], c[2])
    \/ \E h \in HeaderValues : SetHeader(h[1], h[2])
    \/ \E path \in RequestPaths : Dispatch(path)

SpecAuth == InitAuth /\ [][NextAuth]_vars

\* The request went through _extract_user_id_from_headers.
Extracted ==
    pc = "dispatched" /\ \A p \in skip_paths : ~StartsWith(prev, p)

\* The request carries a Bearer token that decodes to the payload written.
Decodable == args.headers["authorization"] = Some("Bearer " \o GoodToken)

ClaimText(name) ==
    IF DictGet(args.payload, name) # None /\ DictGet(args.payload, name)[1].t = "str"
    THEN DictGet(args.payload, name)[1].s
    ELSE ""

\* The identity sources in priority order, "" for one that is not available.
IdentitySources ==
    <<IF Decodable THEN ClaimText("sub") ELSE "",
      IF Decodable THEN local_part(ClaimText("email")) ELSE "",
      IF Decodable THEN ClaimText("name") ELSE "",
      IF Decodable THEN ClaimText("user_id") ELSE "",
      local_part(header(args.headers, "x-goog-authenticated-user-email")),
      header(args.headers, "x-user-id"),
      "development_user">>

FirstAvailable ==
    IdentitySources[CHOOSE i \in 1..7 :
                        /\ IdentitySources[i] # ""
                        /\ \A j \in 1..(i - 1) : IdentitySources[j] = ""]

\* C23: Identity resolution priority: the user id placed in request state is
\* the first available of the Bearer token's claim (sub, local part of
\* email, name, user_id), the local part of the IAP header, the x-user-id
\* header and the fallback string; a token without identity claim falls
\* through rather than failing the request.
C23_IdentityPriority ==
    Extracted => ret.raised = "" /\ ret.user_id = Some(FirstAvailable)

\* The request fails with AttributeError when the token has no usable sub
\* and an email claim that is not a string.
EmailFails ==
    /\ Decodable
    /\ args.payload # <<>>
    /\ ClaimText("sub") = ""
    /\ email_raises(args.payload)

\* What the code does: the priority order holds except that a token whose
\* email claim is not a string fails the request, and that an IAP header
\* with an empty local part gives the empty user id.
IdentityPriorityOfCode ==
    Extracted =>
        /\ (ret.raised # "") <=> EmailFails
        /\ ret.raised = "" =>
              \/ ret.user_id = Some(FirstAvailable)
              \/ /\ ret.user_id = Some("")
                 /\ header(args.headers, "x-goog-authenticated-user-email") # ""
                 /\ \A i \in 1..5 : IdentitySources[i] = ""

---------------------------------------------------------------------------
(* cloud_deployer.py and docker_builder.py: the steps of deploy_agent on the *)
(* process's working directory and the temporary build directories, for two  *)
(* deployments in one process                                                *)

Deployments == {"a1", "a2"}

\* The directory the process is started in (the project root).
RootDir == "/w/engine"

\* tempfile.mkdtemp(prefix=f"adk-build-{agent_name}-")
BuildDir(a) == "/tmp/adk-build-" \o a \o "-0"

\* config.yaml of the two agents, after substitution
DeploymentConfig(a) ==
    IF a = "a1"
    THEN CloudRunConfig(<<<<"service_name", "svc1">>>>,
                        <<"--update-secrets=DB_PASS=dbsec:2">>)
    ELSE CloudRunConfig(<<>>, <<"--memory=1Gi">>)

\* What deploy_agent(a, ...) has done so far.
NotStarted ==
    [entry_cwd |-> None, env |-> None, made_build_dir |-> FALSE,
     original_cwd |-> None, x |-> None, run_from |-> None,
     returned |-> None, raised |-> "", left_at |-> "", left_cwd |-> None,
     left_build_dir |-> FALSE]

\* Path(relative).exists() for the paths deploy_agent looks up relative to
\* the working directory: they are in the project root only.
InRoot(cwd, there) == cwd = RootDir /\ there

\* deploy_agent is left at the given step, by a return or an exception, in
\* the given working directory, its build directory still there or not.
Leave(run, step, returned, raised, cwd, build_dir_there) ==
    [run EXCEPT !.returned = returned, !.raised = raised, !.left_at = step,
                !.left_cwd = Some(cwd), !.left_build_dir = build_dir_there]

\* The other deployment is not inside deploy_agent.
Alone(a) == \A b \in Deployments \ {a} : pc[b] \in {"idle", "done"}

\* The orchestrator runs the deployments one after the other, or lets their
\* steps interleave.
MayStep(a) == args.mode = "interleaved" \/ Alone(a)

\* deploy_agent up to setup_environment_variables: the agent directory is
\* looked up, the environment reconciled.
DeployStart(a) ==
    /\ pc[a] = "idle"
    /\ MayStep(a)
    /\ LET run == [NotStarted EXCEPT !.entry_cwd = Some(prev.cwd)]
       IN  IF ~InRoot(prev.cwd, TRUE)
           THEN /\ ret' = [ret EXCEPT ![a] = Leave(run, "agent_dir", Some(FALSE), "", prev.cwd, FALSE)]
                /\ pc' = [pc EXCEPT ![a] = "done"]
           ELSE /\ ret' = [ret EXCEPT ![a] =
                             [run EXCEPT !.env =
                                 Some(setup_environment_variables("p1", "us-central1",
                                     Some(a),
                                     additional_flags_of(cloud_run_of(DeploymentConfig(a))),
                                     {}, {}))]]
                /\ pc' = [pc EXCEPT ![a] = "reconciled"]
    /\ UNCHANGED <<fs, os_environ, args, prev>>

\* create_build_directory: mkdtemp, then main.py and the agent directory are
\* copied from the working directory; on an error the build directory is
\* removed and deploy_agent returns False.
CreateBuildDirectory(a, copied) ==
    /\ pc[a] = "reconciled"
    /\ MayStep(a)
    /\ IF InRoot(prev.cwd, args.main_py) /\ copied
       THEN /\ prev' = [prev EXCEPT !.dirs = @ \cup {BuildDir(a)}]
            /\ ret' = [ret EXCEPT ![a].made_build_dir = TRUE]
            /\ pc' = [pc EXCEPT ![a] = "built"]
       ELSE /\ prev' = [prev EXCEPT !.dirs = @ \ {BuildDir(a)}]
            /\ ret' = [ret EXCEPT ![a] =
                          Leave([ret[a] EXCEPT !.made_build_dir = TRUE],
                                "build", Some(FALSE), "", prev.cwd, FALSE)]
            /\ pc' = [pc EXCEPT ![a] = "done"]
    /\ UNCHANGED <<fs, os_environ, args>>

\* generate_deployment_artifacts: Dockerfile.template is read from the
\* working directory; FileNotFoundError leaves deploy_agent.
GenerateDeploymentArtifacts(a) ==
    /\ pc[a] = "built"
    /\ MayStep(a)
    /\ IF InRoot(prev.cwd, args.template)
       THEN /\ ret' = ret
            /\ pc' = [pc EXCEPT ![a] = "generated"]
       ELSE /\ ret' = [ret EXCEPT ![a] =
                          Leave(ret[a], "generate", None, "FileNotFoundError",
                                prev.cwd, TRUE)]
            /\ pc' = [pc EXCEPT ![a] = "done"]
    /\ UNCHANGED <<fs, os_environ, args, prev>>

\* original_cwd = os.getcwd(); os.chdir(build_dir)
ChangeToBuildDirectory(a) ==
    /\ pc[a] = "generated"
    /\ MayStep(a)
    /\ ret' = [ret EXCEPT ![a].original_cwd = Some(prev.cwd)]
    /\ prev' = [prev EXCEPT !.cwd = BuildDir(a)]
    /\ pc' = [pc EXCEPT ![a] = "changed"]
    /\ UNCHANGED <<fs, os_environ, args>>

\* deploy_agent's return value after execute_cloud_run_deployment: False when
\* gcloud fails (CalledProcessError).
deploy_agent_returns(dry_run, succeeded) == dry_run \/ succeeded

\* execute_cloud_run_deployment inside the try: unless a dry run, gcloud run
\* deploy --source . is run from the working directory and succeeds or not.
ExecuteCloudRunDeployment(a, succeeded) ==
    /\ pc[a] = "changed"
    /\ MayStep(a)
    /\ LET env == ret[a].env[1]
           x == execute_cloud_run_deployment(
                    base_service_name(cloud_run_of(DeploymentConfig(a)), a),
                    "us-central1", "p1", env.env_string,
                    env.secret_manager_secrets, env.additional_processed_flags,
                    args.dry_run, args.preserve_env)
       IN  ret' = [ret EXCEPT ![a].x = Some(x),
                              ![a].run_from = IF x.ran THEN Some(prev.cwd) ELSE None,
                              ![a].returned =
                                  Some(deploy_agent_returns(args.dry_run, succeeded))]
    /\ pc' = [pc EXCEPT ![a] = "executed"]
    /\ UNCHANGED <<fs, os_environ, args, prev>>

\* finally: cleanup_deployment_resources(build_dir, original_cwd): chdir
\* back (FileNotFoundError when that directory is gone), then rmtree.
CleanupDeploymentResources(a) ==
    /\ pc[a] = "executed"
    /\ MayStep(a)
    /\ IF ret[a].original_cwd[1] \in prev.dirs \cup {RootDir}
       THEN /\ prev' = [prev EXCEPT !.cwd = ret[a].original_cwd[1],
                                    !.dirs = @ \ {BuildDir(a)}]
            /\ ret' = [ret EXCEPT ![a] =
                          Leave(ret[a], "end", ret[a].returned, "",
                                ret[a].original_cwd[1], FALSE)]
       ELSE /\ prev' = prev
            /\ ret' = [ret EXCEPT ![a] =
                          Leave(ret[a], "cleanup", None, "FileNotFoundError",
                                prev.cwd, TRUE)]
    /\ pc' = [pc EXCEPT ![a] = "done"]
    /\ UNCHANGED <<fs, os_environ, args>>

---------------------------------------------------------------------------
(* Specification SpecConcurrent: two agents are deployed in one process, one *)
(* after the other or with their steps interleaved                           *)

ConcurrentFiles ==
    {NoFiles,
     [NoFiles EXCEPT ![A1SecretsFile] = Some(<<[k |-> "DB_PASS", v |-> "pw"],
                                              [k |-> "TOKEN", v |-> "t"]>>)]}

InitConcurrent ==
    /\ fs \in ConcurrentFiles
    /\ os_environ = NoEnviron
    /\ args \in [mode : {"sequential", "interleaved"}, dry_run : BOOLEAN,
                 preserve_env : BOOLEAN, main_py : BOOLEAN, template : BOOLEAN]
    /\ pc = [a \in Deployments |-> "idle"]
    /\ ret = [a \in Deployments |-> NotStarted]
    /\ prev = [cwd |-> RootDir, dirs |-> {}]

NextConcurrent ==
    \E a \in Deployments :
        \/ DeployStart(a)
        \/ \E copied \in BOOLEAN : CreateBuildDirectory(a, copied)
        \/ GenerateDeploymentArtifacts(a)
        \/ ChangeToBuildDirectory(a)
        \/ \E succeeded \in BOOLEAN : ExecuteCloudRunDeployment(a, succeeded)
        \/ CleanupDeploymentResources(a)

SpecConcurrent == InitConcurrent /\ [][NextConcurrent]_vars

\* The reconciliation result of the agent when it is deployed on its own.
ReconciledAlone(a) ==
    setup_environment_variables("p1", "us-central1", Some(a),
        additional_flags_of(cloud_run_of(DeploymentConfig(a))), {}, {})

\* The deployment went as it goes on its own: started in the project root,
\* same reconciliation result, command run from its own build directory, no
\* step failing for a directory another deployment changed or removed.
AsOnItsOwn(a) ==
    /\ ret[a].entry_cwd \in {None, Some(RootDir)}
    /\ ret[a].env \in {None, Some(ReconciledAlone(a))}
    /\ ret[a].run_from \in {None, Some(BuildDir(a))}
    /\ ret[a].left_at \notin {"agent_dir", "cleanup"}
    /\ ret[a].left_at \in {"build", "generate"} => ret[a].left_cwd = Some(RootDir)

\* C24: Independence of concurrent deployments: interleaved deployments of
\* two agents give each the reconciliation result and the deploy command,
\* run from the same directory, that it has when they run one after the
\* other.
C24_Independent == \A a \in Deployments : AsOnItsOwn(a)

\* What holds: run one after the other, each deployment goes as on its own,
\* and interleaved ones still get their own reconciliation result.
IndependentWhenSequential ==
    /\ args.mode = "sequential" => \A a \in Deployments : AsOnItsOwn(a)
    /\ \A a \in Deployments : ret[a].env \in {None, Some(ReconciledAlone(a))}

\* deploy_agent was left after it created the build directory, no other
\* deployment running in the process.
LeftAfterBuild(a) ==
    /\ args.mode = "sequential"
    /\ pc[a] = "done"
    /\ ret[a].made_build_dir

CleanedUp(a) ==
    /\ ~ret[a].left_build_dir
    /\ ret[a].left_cwd = ret[a].entry_cwd

\* C30: Cleanup on every outcome: once deploy_agent has created the build
\* directory, on every way of leaving it the build directory has been
\* removed and the working directory is the one on entry.
C30_CleanupAlways ==
    \A a \in Deployments : LeftAfterBuild(a) => CleanedUp(a)

\* What holds: the build directory is left behind exactly when
\* generate_deployment_artifacts raises; the working directory is restored
\* in every case.
CleanupUnlessGenerateFails ==
    \A a \in Deployments :
        LeftAfterBuild(a) =>
            /\ ret[a].left_cwd = ret[a].entry_cwd
            /\ ret[a].left_build_dir <=> (ret[a].left_at = "generate")

\* C25: Dry run performs no deployment: when dry_run is true, for both values
\* of preserve_env, execute_cloud_run_deployment does not run the deploy
\* command and deploy_agent returns True.
C25_DryRun ==
    \A a \in Deployments :
        args.mode = "sequential" /\ args.dry_run /\ ret[a].x # None =>
            /\ ~ret[a].x[1].ran
            /\ ret[a].run_from = None
            /\ ret[a].returned = Some(TRUE)
            /\ ret[a].raised = ""

\* A dry run in preserve mode went through execute_cloud_run_deployment and
\* deploy_agent has returned.
C25_Witness ==
    /\ args.mode = "sequential"
    /\ args.dry_run
    /\ args.preserve_env
    /\ pc["a1"] = "done"
    /\ ret["a1"].x # None
    /\ ret["a1"].x[1].deploy_cmd[4] = "svc1"
    /\ ret["a1"].returned = Some(TRUE)

---------------------------------------------------------------------------
(* tests/test_workflow.py: detect_agent_changes, validate_agent_config,      *)
(* check_deployment_readiness, run_cicd_pipeline                             *)

\* The number of changed files and of existing services.
MaxChanged == 3

global_files ==
    {".env", "requirements.txt", "environment.yml", "makefile",
     "pyproject.toml", ".python-version"}

\* str.strip(): white space
Whitespace == {" "}

\* A change of this file deploys every agent.
deploys_all(file) ==
    file \in global_files \/ StartsWith(file, "utils/")
        \/ StartsWith(file, ".github/workflows/")

\* detect_agent_changes: agents_to_deploy and should_deploy_all
detect_agent_changes(agents_dir, changed_files, all_agents) ==
    IF \E i \in 1..Len(changed_files) : deploys_all(changed_files[i])
    THEN [agents_to_deploy |-> all_agents, should_deploy_all |-> TRUE]
    ELSE [agents_to_deploy |->
              SelectSeq(all_agents,
                  LAMBDA agent :
                      \E i \in 1..Len(changed_files) :
                          StartsWith(changed_files[i],
                                     agents_dir \o "/" \o agent \o "/")),
          should_deploy_all |-> FALSE]

\* not value or not isinstance(value, str) or not value.strip()
field_missing(value) ==
    value = None \/ value[1].t # "str" \/ Strip(value[1].s, Whitespace) = ""

\* MockGcloud.service_exists: the name is among the services of the project
service_exists(existing_services, service_name, project) ==
    <<project, service_name>> \in existing_services

\* validate_agent_config, for an agent whose config.yaml exists
validate_agent_config(agent, cloud_run, prefix, existing_services) ==
    LET gcp_project == DictGet(cloud_run, "gcp_project")
        gcp_location == DictGet(cloud_run, "gcp_location")
        service_name == DictGet(cloud_run, "service_name")
    IN  IF field_missing(gcp_project) \/ field_missing(gcp_location)
           \/ field_missing(service_name)
        THEN [status |-> "failed", agent |-> agent,
              service_name |-> IF field_missing(service_name) THEN ""
                               ELSE Strip(service_name[1].s, Whitespace)]
        ELSE LET final_service == prefix \o Strip(service_name[1].s, Whitespace)
             IN  [status |-> IF service_exists(existing_services, final_service,
                                    Strip(gcp_project[1].s, Whitespace))
                             THEN "ready" ELSE "needs_first_deploy",
                  agent |-> agent, service_name |-> final_service]

\* check_deployment_readiness
check_deployment_readiness(validation_result) ==
    [agent |-> validation_result.agent,
     service_name |-> validation_result.service_name,
     would_deploy |-> validation_result.status \notin {"failed", "needs_first_deploy"}]

\* prefix_map.get(branch_name, '')
branch_prefix_none(branch_name) == ""
branch_prefix(branch_name) ==
    IF branch_name = "dev" THEN "dev-"
    ELSE IF branch_name = "stag" THEN "stag-" ELSE ""

Agents(rs) == [i \in 1..Len(rs) |-> rs[i].agent]

\* run_cicd_pipeline, the agent directories coming in the order dirs
run_cicd_pipeline(agents_dir, configs, dirs, changed_files, branch_name, existing_services) ==
    LET all_agents == SelectSeq(dirs, LAMBDA a : configs[a] # None)
        detection == detect_agent_changes(agents_dir, changed_files, all_agents)
        validation_results ==
            [i \in 1..Len(detection.agents_to_deploy) |->
                validate_agent_config(detection.agents_to_deploy[i],
                    configs[detection.agents_to_deploy[i]][1],
                    branch_prefix(branch_name), existing_services)]
        deployment_results ==
            [i \in 1..Len(validation_results) |->
                check_deployment_readiness(validation_results[i])]
    IN  [detected_changes |-> detection,
         validation_results |-> validation_results,
         deployment_results |-> deployment_results,
         ready_to_deploy |->
             Agents(SelectSeq(deployment_results, LAMBDA d : d.would_deploy)),
         needs_first_deploy |->
             Agents(SelectSeq(validation_results,
                              LAMBDA v : v.status = "needs_first_deploy")),
         validation_failed |->
             Agents(SelectSeq(validation_results, LAMBDA v : v.status = "failed"))]

---------------------------------------------------------------------------
(* Specification SpecCicd: the agents' config.yaml, the changed files and    *)
(* the existing services are written, then the pipeline runs on a branch     *)

CicdAgentsDir == "agents"

CicdOrders == ListOrders

CicdConfigs ==
    {<<[k |-> "gcp_project", v |-> Str("p1")],
       [k |-> "gcp_location", v |-> Str("r1")],
       [k |-> "service_name", v |-> Str("svc")]>>,
     <<[k |-> "gcp_project", v |-> Str("p1")],
       [k |-> "gcp_location", v |-> Str("r1")]>>,
     <<[k |-> "gcp_project", v |-> Str("")],
       [k |-> "gcp_location", v |-> Str("r1")],
       [k |-> "service_name", v |-> Str("svc")]>>,
     <<[k |-> "gcp_project", v |-> Str("p1")],
       [k |-> "gcp_location", v |-> Str(" ")],
       [k |-> "service_name", v |-> Str("svc")]>>,
     <<[k |-> "gcp_project", v |-> Str("p1")],
       [k |-> "gcp_location", v |-> Str("r1")],
       [k |-> "service_name", v |-> Other("7")]>>}

CicdChangedFiles ==
    {".env", "utils/deploy_agent.py", "agents/a1/agent.py",
     "agents/a2/config.yaml", "README.md", "agents/a1x/agent.py"}

CicdServices == {<<"p1", "svc">>, <<"p1", "dev-svc">>, <<"p2", "svc">>}

CicdBranches == {"dev", "main", "feature"}

\* agents/<agent>/config.yaml is written with this cloud_run block.
WriteCloudRun(agent, cloud_run) ==
    /\ pc = "edit"
    /\ args.configs[agent] = None
    /\ args' = [args EXCEPT !.configs[agent] = Some(cloud_run)]
    /\ UNCHANGED <<fs, os_environ, pc, ret, prev>>

\* A file is changed by the commits of the push.
ChangeFile(file) ==
    /\ pc = "edit"
    /\ Len(args.changed_files) + Cardinality(args.existing_services) < MaxChanged
    /\ ~InList(file, args.changed_files)
    /\ args' = [args EXCEPT !.changed_files = Append(@, file)]
    /\ UNCHANGED <<fs, os_environ, pc, ret, prev>>

\* A Cloud Run service exists in a project.
CreateService(service) ==
    /\ pc = "edit"
    /\ Len(args.changed_files) + Cardinality(args.existing_services) < MaxChanged
    /\ args' = [args EXCEPT !.existing_services = @ \cup {service}]
    /\ service \notin args.existing_services
    /\ UNCHANGED <<fs, os_environ, pc, ret, prev>>

\* The pipeline runs for a push to the branch.
RunCicdPipeline(dirs, branch_name) ==
    /\ pc = "edit"
    /\ prev' = [dirs |-> dirs, branch_name |-> branch_name]
    /\ ret' = run_cicd_pipeline(CicdAgentsDir, args.configs, dirs,
                                args.changed_files, branch_name,
                                args.existing_services)
    /\ pc' = "ran"
    /\ UNCHANGED <<fs, os_environ, args>>

InitCicd ==
    /\ fs = NoFiles
    /\ os_environ = NoEnviron
    /\ args = [configs |-> [a \in ListAgentNames |-> None],
               changed_files |-> <<>>, existing_services |-> {}]
    /\ pc = "edit"
    /\ ret = <<>>
    /\ prev = <<>>

NextCicd ==
    \/ \E a \in ListAgentNames, c \in CicdConfigs : WriteCloudRun(a, c)
    \/ \E f \in CicdChangedFiles : ChangeFile(f)
    \/ \E s \in CicdServices : CreateService(s)
    \/ \E dirs \in CicdOrders, b \in CicdBranches : RunCicdPipeline(dirs, b)

SpecCicd == InitCicd /\ [][NextCicd]_vars

\* The agent has a config.yaml and a changed file is one of the global
\* files or lies in the agent's directory.
DetectedAsChanged(a) ==
    /\ args.configs[a] # None
    /\ \E i \in 1..Len(args.changed_files) :
          \/ deploys_all(args.changed_files[i])
          \/ StartsWith(args.changed_files[i], "agents/" \o a \o "/")

\* The field of the agent's cloud_run block is a non-empty string.
NonEmptyField(a, name) ==
    /\ DictGet(args.configs[a][1], name) # None
    /\ DictGet(args.configs[a][1], name)[1].t = "str"
    /\ Strip(DictGet(args.configs[a][1], name)[1].s, Whitespace) # ""

BranchPrefix ==
    CHOOSE p \in {"dev-", "stag-", ""} :
        \/ prev.branch_name \in {"dev", "stag"} /\ p = prev.branch_name \o "-"
        \/ prev.branch_name \notin {"dev", "stag"} /\ p = ""

ServiceThere(a) ==
    <<DictGet(args.configs[a][1], "gcp_project")[1].s,
      BranchPrefix \o DictGet(args.configs[a][1], "service_name")[1].s>>
        \in args.existing_services

NoRepeat(seq) == \A i, j \in 1..Len(seq) : seq[i] = seq[j] => i = j

\* C26: CI pipeline gating: an agent is in ready_to_deploy only if it was
\* detected as changed, its config.yaml has non-empty gcp_project,
\* gcp_location and service_name, and the service <branch prefix>
\* <service_name> exists; ready_to_deploy, needs_first_deploy and
\* validation_failed are pairwise disjoint and together contain exactly the
\* detected agents.
C26_PipelineGating ==
    pc = "ran" =>
        /\ \A a \in SeqRange(ret.ready_to_deploy) :
              /\ DetectedAsChanged(a)
              /\ NonEmptyField(a, "gcp_project")
              /\ NonEmptyField(a, "gcp_location")
              /\ NonEmptyField(a, "service_name")
              /\ ServiceThere(a)
        /\ NoRepeat(ret.ready_to_deploy \o ret.needs_first_deploy
                        \o ret.validation_failed)
        /\ SeqRange(ret.ready_to_deploy \o ret.needs_first_deploy
                        \o ret.validation_failed)
               = {a \in ListAgentNames : DetectedAsChanged(a)}
        /\ SeqRange(ret.detected_changes.agents_to_deploy)
               = {a \in ListAgentNames : DetectedAsChanged(a)}

\* On the dev branch, one changed agent is ready and the other, changed too,
\* failed validation.
C26_Witness ==
    /\ pc = "ran"
    /\ prev.branch_name = "dev"
    /\ Len(ret.ready_to_deploy) = 1
    /\ Len(ret.validation_failed) = 1
    /\ ~ret.detected_changes.should_deploy_all

---------------------------------------------------------------------------
(* Secrets through the whole of handle_deployment *)

\* The secret-binding directives of the flags of SpecPipeline: the flag, its
\* ENV and the variable of its placeholder ("" for a literal secret name).
PipelineDirectives ==
    {[flag |-> "--update-secrets=DB_PASS=${DB_SECRET}:latest",
      env |-> "DB_PASS", var |-> "DB_SECRET"],
     [flag |-> "--update-secrets=DB_PASS=litsec:1",
      env |-> "DB_PASS", var |-> ""]}

\* The directives config.yaml declares.
Declared == {d \in PipelineDirectives : InList(d.flag, args.additional_flags)}

\* handle_deployment reached the assembly of the deploy command.
Handled == pc = "handled" /\ ret.called /\ ret.deploy.deploy_cmd # None

PipelineCmd == ret.deploy.deploy_cmd[1]

\* The ENV names bound by the --set-secrets flag of the command.
PipelineSecretEnvs ==
    UNION {{KeyOf(e) : e \in SeqRange(SplitAll(
                SubSeq(PipelineCmd[i], Len("--set-secrets=") + 1,
                       Len(PipelineCmd[i])), ","))} :
           i \in {j \in 1..Len(PipelineCmd) :
                     StartsWith(PipelineCmd[j], "--set-secrets=")}}

\* The names of the KEY=VALUE entries of the plain-env list.
PipelinePlainNames ==
    {KeyOf(e) : e \in SeqRange(SplitAll(ret.deploy.env_string, ","))}

\* The placeholder of the directive has a value in the environment files.
PlaceholderResolved(d) ==
    d.var = "" \/ DictGet(load_environment_files(Some("a1")), d.var) # None

\* C28: No configured secret is dropped: in a full deployment every
\* secret-binding directive of additional_flags, its secret name literal or
\* a ${VAR} placeholder, yields an entry for its ENV in --set-secrets, and
\* --clear-secrets is not emitted when such a directive is declared.
C28_NoSecretDropped ==
    Handled /\ ~prev.preserve_env =>
        \A d \in Declared :
            /\ d.env \in PipelineSecretEnvs
            /\ ~InList("--clear-secrets", PipelineCmd)

\* What holds: a directive is bound exactly when its secret name is literal
\* or its placeholder has a value in the environment files; when no declared
\* directive is, --clear-secrets is emitted.
SecretKeptWhenResolved ==
    Handled /\ ~prev.preserve_env =>
        /\ PipelineSecretEnvs = {d.env : d \in {e \in Declared : PlaceholderResolved(e)}}
        /\ InList("--clear-secrets", PipelineCmd)
               <=> \A d \in Declared : ~PlaceholderResolved(d)

\* C29: No plaintext leak of a secret-targeted variable: the ENV of any
\* --update-secrets directive of the config, literal or placeholder,
\* resolved or not, is never a KEY=VALUE entry of the plain-env list, even
\* when it has a value in .env or .env.secrets.
C29_NoPlaintextLeak ==
    Handled => \A d \in Declared : d.env \notin PipelinePlainNames

\* What holds: the ENV of a directive is emitted as plain text exactly when
\* it has a value in the environment files and no declared directive for it
\* is resolved.
PlainOnlyWhenUnresolved ==
    Handled =>
        \A d \in Declared :
            d.env \in PipelinePlainNames
                <=> /\ DictGet(load_environment_files(Some("a1")), d.env) # None
                    /\ \A e \in Declared : e.env = d.env => ~PlaceholderResolved(e)

===========================================================================
